---- MODULE Spec2Model ----
(***************************************************************************)
(* Model of the header preprocessor of wotw-seedgen                        *)
(* (src/src/languages/headers/parser.rs).                                  *)
(*                                                                         *)
(* Text is a sequence of one-character strings, so that splitting,         *)
(* trimming, prefix tests and number parsing are computed the way the      *)
(* Rust code computes them. An operator named f_x continues operator f     *)
(* with a value f has computed.                                            *)
(***************************************************************************)
EXTENDS Integers, Sequences, FiniteSets, TLC

VARIABLES
    result,          \* "running" | "ok" | "err" | "panic": what parse_header returned
    run,             \* parse_header's locals: processed, pool, parameters, skip_until, depth, first_line
    world,           \* World: pool (item -> count), preplaced (calls of preplace), sets, graph
    context,         \* HeaderContext
    header,          \* the header lines consumed so far
    rng,             \* the values gen_range has returned so far
    last,            \* what the last loop iteration did
    param_values,    \* header_param_values: the injected parameter map
    overflow_checks, \* whether the build traps on integer overflow (debug) or wraps (release)
    fuel,            \* lines the header may still hold
    tk,              \* apply_take_commands called on its own: line, pool, draws, out
    call             \* another function called on its own: fn, phase, input, out

vars == <<result, run, world, context, header, rng, last, param_values, overflow_checks, fuel, tk, call>>

(***************************************************************************)
(* Bounds of the model                                                     *)
(***************************************************************************)
MaxCondLines == 5
MaxDeepLines == 130
MaxTakePool == 3
MaxTakes == 3
MaxDrawLines == 3
MaxDraws == 2
MaxPoolLines == 3
MaxPickupLines == 4
MaxInvLines == 4
MaxSpawnLines == 2
MaxOrderLines == 4
MaxValidateLines == 2
MaxStopLines == 2
MaxCollapseLines == 3
MaxSkipLines == 3
MaxGateLines == 4

(***************************************************************************)
(* Text primitives (str methods of the Rust standard library)              *)
(***************************************************************************)
WS == {" ", "\t"}
Digits == {"0", "1", "2", "3", "4", "5", "6", "7", "8", "9"}
DigitVal(c) ==
    CASE c = "0" -> 0 [] c = "1" -> 1 [] c = "2" -> 2 [] c = "3" -> 3 [] c = "4" -> 4
      [] c = "5" -> 5 [] c = "6" -> 6 [] c = "7" -> 7 [] c = "8" -> 8 [] c = "9" -> 9

Drop(s, n) == SubSeq(s, n + 1, Len(s))
Take(s, n) == SubSeq(s, 1, n)
Min(S) == CHOOSE i \in S : \A j \in S : i <= j
Max(S) == CHOOSE i \in S : \A j \in S : i >= j

\* str::starts_with
StartsWith(s, p) == Len(p) <= Len(s) /\ SubSeq(s, 1, Len(p)) = p

\* The 1-based positions where p occurs in s
Occurrences(s, p) == {i \in 1..(Len(s) - Len(p) + 1) : SubSeq(s, i, i + Len(p) - 1) = p}

\* str::contains
Contains(s, p) == Occurrences(s, p) # {}

\* str::find: the 1-based position of the first occurrence of p, 0 when there is none
Find(s, p) == IF Contains(s, p) THEN Min(Occurrences(s, p)) ELSE 0

\* str::rfind: the position of the last occurrence, 0 when there is none
RFind(s, p) == IF Contains(s, p) THEN Max(Occurrences(s, p)) ELSE 0

RECURSIVE TrimStart(_)
TrimStart(s) == IF s # <<>> /\ Head(s) \in WS THEN TrimStart(Tail(s)) ELSE s

RECURSIVE TrimEnd(_)
TrimEnd(s) == IF s # <<>> /\ s[Len(s)] \in WS THEN TrimEnd(Take(s, Len(s) - 1)) ELSE s

\* str::trim
Trim(s) == TrimEnd(TrimStart(s))

\* str::split(pattern): the parts between the occurrences of p, at least one part
RECURSIVE Split(_, _)
Split_at(s, p, i) ==
    IF i = 0 THEN <<s>> ELSE <<Take(s, i - 1)>> \o Split(Drop(s, i - 1 + Len(p)), p)
Split(s, p) == Split_at(s, p, Find(s, p))

\* str::splitn(n, pattern): at most n parts, the last one holding the rest
RECURSIVE SplitN(_, _, _)
SplitN_at(s, n, p, i) ==
    IF n <= 1 \/ i = 0 THEN <<s>>
    ELSE <<Take(s, i - 1)>> \o SplitN(Drop(s, i - 1 + Len(p)), n - 1, p)
SplitN(s, n, p) == SplitN_at(s, n, p, Find(s, p))

\* The value of a run of decimal digits
RECURSIVE DigitsValue(_, _)
DigitsValue(s, acc) ==
    IF s = <<>> THEN acc ELSE DigitsValue(Tail(s), acc * 10 + DigitVal(Head(s)))

RECURSIVE StripZeros(_)
StripZeros(s) == IF Len(s) > 1 /\ Head(s) = "0" THEN StripZeros(Tail(s)) ELSE s

NotANumber == [ok |-> FALSE, val |-> 0]
Number(val, max) == IF val > max THEN NotANumber ELSE [ok |-> TRUE, val |-> val]
ParseDigits(significant, max) ==
    IF Len(significant) > 9 THEN NotANumber ELSE Number(DigitsValue(significant, 0), max)
ParseUnsigned_body(body, max) ==
    IF body = <<>> \/ \E i \in 1..Len(body) : body[i] \notin Digits THEN NotANumber
    ELSE ParseDigits(StripZeros(body), max)
\* <unsigned>::from_str: an optional '+', then one digit or more, at most max.
\* Digit runs of more than 9 significant digits are outside the modelled range.
ParseUnsigned(s, max) ==
    ParseUnsigned_body(IF s # <<>> /\ Head(s) = "+" THEN Tail(s) ELSE s, max)

U8Max == 255
U16Max == 65535
IdMax == 999999999

AllDigits(body) == body # <<>> /\ \A i \in 1..Len(body) : body[i] \in Digits
\* <signed>::from_str: an optional '+' or '-', then digits
ParseSignedOk(s) == AllDigits(IF s # <<>> /\ Head(s) \in {"+", "-"} THEN Tail(s) ELSE s)

\* bool::from_str
S_true == <<"t", "r", "u", "e">>
S_false == <<"f", "a", "l", "s", "e">>
ParseBoolOk(s) == s \in {S_true, S_false}

Decimal(int, frac) ==
    /\ int \o frac # <<>>
    /\ \A i \in 1..Len(int) : int[i] \in Digits
    /\ \A i \in 1..Len(frac) : frac[i] \in Digits
ParseFloat_body(body, dot) ==
    IF dot = 0 THEN Decimal(body, <<>>) ELSE Decimal(Take(body, dot - 1), Drop(body, dot))
ParseFloat_unsigned(body) == ParseFloat_body(body, Find(body, <<".">>))
\* f32::from_str restricted to plain decimals: sign, digits, optional fraction
ParseFloatOk(s) == ParseFloat_unsigned(IF s # <<>> /\ Head(s) \in {"+", "-"} THEN Tail(s) ELSE s)

(***************************************************************************)
(* String literals of the source                                           *)
(***************************************************************************)
S_take == <<"!", "!", "t", "a", "k", "e">>
S_param == <<"$", "P", "A", "R", "A", "M", "(">>
S_bangbang == <<"!", "!">>
S_comment == <<"/", "/">>
S_comment4 == <<"/", "/", "/", "/">>
S_skip_validate == <<"s", "k", "i", "p", "-", "v", "a", "l", "i", "d", "a", "t", "e">>
S_Flags == <<"F", "l", "a", "g", "s", ":">>
S_timer == <<"t", "i", "m", "e", "r", ":">>
S_endif == <<"e", "n", "d", "i", "f">>
S_bang_endif == <<"!", "!", "e", "n", "d", "i", "f">>
S_if == <<"i", "f", " ">>
S_bang_if == <<"!", "!", "i", "f", " ">>
S_include == <<"i", "n", "c", "l", "u", "d", "e", " ">>
S_exclude == <<"e", "x", "c", "l", "u", "d", "e", " ">>
S_add == <<"a", "d", "d", " ">>
S_remove == <<"r", "e", "m", "o", "v", "e", " ">>
S_parameter == <<"p", "a", "r", "a", "m", "e", "t", "e", "r", " ">>
S_pool == <<"p", "o", "o", "l", " ">>
S_addpool == <<"a", "d", "d", "p", "o", "o", "l", " ">>
S_flush == <<"f", "l", "u", "s", "h">>
S_set == <<"s", "e", "t", " ">>
S_wotwrh == <<".", "w", "o", "t", "w", "r", "h">>
S_bool == <<"b", "o", "o", "l">>
S_int == <<"i", "n", "t">>
S_float == <<"f", "l", "o", "a", "t">>
S_string == <<"s", "t", "r", "i", "n", "g">>
S_noclear == <<"6", "|", "f", "=", "0", "|", "q", "u", "i", "e", "t", "|", "n", "o", "c", "l", "e", "a", "r">>
S_Spawn == <<"S", "p", "a", "w", "n", ":">>
S_Marsh == <<"M", "a", "r", "s", "h">>
S_Hollow == <<"H", "o", "l", "l", "o", "w">>
S_Zone == <<"Z", "o", "n", "e">>
S_Player == <<"P", "l", "a", "y", "e", "r", " ">>
S_Unknown == <<"U", "n", "k", "n", "o", "w", "n">>
S_s == <<"'", "s", " ">>
S_Spawn_zone == <<"S", "p", "a", "w", "n">>
S_WHEREIS == <<"$", "W", "H", "E", "R", "E", "I", "S", "(">>
S_HOWMANY == <<"$", "H", "O", "W", "M", "A", "N", "Y", "(">>
S_sysmessage == <<"$", "[", "1", "5", "|", "4", "|">>
S_shared_open == <<"8", "\\", "|", "1", "2", "\\", "|">>
S_shared_close == <<"\\", "|", "b", "o", "o", "l", "\\", "|", "t", "r", "u", "e">>
NL == <<"\n">>

(***************************************************************************)
(* Items (the variants the header pass is exercised with)                  *)
(***************************************************************************)
Item(kind, n) == [kind |-> kind, n |-> n]
NoItem == Item("none", 0)
ItemOk(item) == [ok |-> TRUE, item |-> item, err |-> ""]
ItemErr(msg) == [ok |-> FALSE, item |-> NoItem, err |-> msg]

\* Resource::try_from and Skill::try_from: the ids that name a variant
ResourceIds == 0..4
SkillIds == {0, 3, 5, 8, 14, 23, 51, 57, 62, 74, 77, 97, 98, 100, 101, 102, 104,
             106, 108, 115, 116, 118, 120, 121}
\* 2|120 and 2|121 both name Skill::AncestralLight
SkillOf(id) == IF id = 121 THEN 120 ELSE id

\* end_of_item: no operand is left over after a variant has taken its own
end_of_item_lax(parts) == TRUE
end_of_item(parts) == parts = <<>>

\* A leading '-' names the Remove sibling of the variant
Operand(parts) ==
    [removal |-> StartsWith(Head(parts), <<"-">>),
     text |-> IF StartsWith(Head(parts), <<"-">>) THEN Tail(Head(parts)) ELSE Head(parts)]

spirit_light_item(removal, amount) ==
    IF ~amount.ok THEN ItemErr("invalid spirit light amount")
    ELSE IF removal THEN ItemOk(Item("RemoveSpiritLight", amount.val))
    ELSE ItemOk(Item("SpiritLight", amount.val))
parse_spirit_light(parts) ==
    IF parts = <<>> THEN ItemErr("missing spirit light amount")
    ELSE IF ~end_of_item(Tail(parts)) THEN ItemErr("too many parts")
    ELSE spirit_light_item(Operand(parts).removal, ParseUnsigned(Operand(parts).text, U16Max))

resource_item(resource_type) ==
    IF ~resource_type.ok \/ resource_type.val \notin ResourceIds THEN ItemErr("invalid resource type")
    ELSE ItemOk(Item("Resource", resource_type.val))
parse_resource(parts) ==
    IF parts = <<>> THEN ItemErr("missing resource type")
    ELSE IF ~end_of_item(Tail(parts)) THEN ItemErr("too many parts")
    ELSE resource_item(ParseUnsigned(Head(parts), U8Max))

skill_item(removal, id) ==
    IF ~id.ok \/ id.val \notin SkillIds THEN ItemErr("invalid skill type")
    ELSE IF removal THEN ItemOk(Item("RemoveSkill", SkillOf(id.val)))
    ELSE ItemOk(Item("Skill", SkillOf(id.val)))
parse_skill(parts) ==
    IF parts = <<>> THEN ItemErr("missing skill type")
    ELSE IF ~end_of_item(Tail(parts)) THEN ItemErr("too many parts")
    ELSE skill_item(Operand(parts).removal, ParseUnsigned(Operand(parts).text, U8Max))

world_event_item(removal, id) ==
    IF ~id.ok \/ id.val # 0 THEN ItemErr("invalid world event type")
    ELSE IF removal THEN ItemOk(Item("RemoveWater", 0))
    ELSE ItemOk(Item("Water", 0))
parse_world_event(parts) ==
    IF parts = <<>> THEN ItemErr("missing world event type")
    ELSE IF ~end_of_item(Tail(parts)) THEN ItemErr("too many parts")
    ELSE world_event_item(Operand(parts).removal, ParseUnsigned(Operand(parts).text, U8Max))

NoUberState == [ok |-> FALSE, group |-> 0, id |-> 0, value |-> <<>>]
UberState_of(g, i, id_parts) ==
    IF ~g.ok \/ ~i.ok THEN NoUberState
    ELSE [ok |-> TRUE, group |-> g.val, id |-> i.val,
          value |-> IF Len(id_parts) > 1 THEN id_parts[2] ELSE <<>>]
UberState_split(uber_group, id_parts) ==
    UberState_of(ParseUnsigned(uber_group, U16Max), ParseUnsigned(id_parts[1], IdMax), id_parts)
\* UberState::from_parts(group, "id") or (group, "id=value")
UberStateFromParts(uber_group, uber_id) ==
    UberState_split(uber_group, SplitN(uber_id, 2, <<"=">>))

\* parse_uber_state: the next two parts name the uber state
parse_uber_state(parts) ==
    IF Len(parts) < 2 THEN NoUberState ELSE UberStateFromParts(parts[1], parts[2])


\* parse_icon: "file:path" or "kind:id"
IconKinds == {<<"s", "h", "a", "r", "d">>, <<"s", "p", "e", "l", "l">>, <<"o", "p", "h", "e", "r">>,
              <<"l", "u", "p", "o">>, <<"g", "r", "o", "m">>, <<"t", "u", "l", "e", "y">>}
parse_icon_parts(icon_parts) ==
    /\ Len(icon_parts) = 2
    /\ \/ icon_parts[1] = <<"f", "i", "l", "e">>
       \/ ParseUnsigned(icon_parts[2], U16Max).ok /\ icon_parts[1] \in IconKinds
parse_icon_ok(icon) == parse_icon_parts(SplitN(icon, 2, <<":">>))

(***************************************************************************)
(* Typed operands of the item variants                                     *)
(***************************************************************************)
I16Max == 32767
I16Min == -32768
Negated(n) == [ok |-> n.ok, val |-> 0 - n.val]
\* <signed>::from_str with its value: an optional '+' or '-', then digits.
\* i32 operands stay within nine digits (IdMax on both sides).
ParseSigned(s, min, max) ==
    IF s # <<>> /\ Head(s) = "-" THEN Negated(ParseUnsigned_body(Tail(s), 0 - min))
    ELSE ParseUnsigned(s, max)

RECURSIVE StripTrailingZeros(_)
StripTrailingZeros(s) ==
    IF s # <<>> /\ s[Len(s)] = "0" THEN StripTrailingZeros(Take(s, Len(s) - 1)) ELSE s
Unsigned(s) == IF s # <<>> /\ Head(s) \in {"+", "-"} THEN Tail(s) ELSE s
Whole(body) == IF Find(body, <<".">>) = 0 THEN body ELSE Take(body, Find(body, <<".">>) - 1)
Fraction(body) == IF Find(body, <<".">>) = 0 THEN <<>> ELSE Drop(body, Find(body, <<".">>))
\* The number a plain decimal denotes: whole digits without leading zeros,
\* fraction digits without trailing zeros, and a sign that zero does not carry.
\* Rounding to the nearest f32 is outside the model.
Real(s) ==
    [whole |-> StripZeros(IF Whole(Unsigned(s)) = <<>> THEN <<"0">> ELSE Whole(Unsigned(s))),
     frac |-> StripTrailingZeros(Fraction(Unsigned(s))),
     neg |-> /\ s # <<>> /\ Head(s) = "-"
             /\ \E i \in 1..Len(s) : s[i] \in Digits \ {"0"}]
\* <R32>::from_str
ParseR32(s) == IF ParseFloatOk(s) THEN [ok |-> TRUE, val |-> Real(s)]
               ELSE [ok |-> FALSE, val |-> Real(<<"0">>)]
Position(x, y) == [x |-> x, y |-> y]

\* try_from of the enums the items name: the ids that name a variant
ShardIds == {1, 2, 3, 4, 5, 8, 9, 13, 14, 18, 19, 22, 23, 25, 26, 27, 28, 30, 32, 33,
             34, 35, 36, 38, 39, 40, 41, 43, 44, 46, 47}
TeleporterIds == 0..17
BonusItemIds == {20, 30, 31, 35, 36}
BonusUpgradeIds == 0..9 \cup {45, 46, 47}
ZoneIds == 0..13
SysMessageIds == 0..4
ToggleCommandIds == 0..2

Command(command, args) == [kind |-> "Command", command |-> command, args |-> args]
UberIdentifier(uber_state) == [group |-> uber_state.group, id |-> uber_state.id]

(***************************************************************************)
(* parse_shard, parse_teleporter, parse_message, bonus, relic, sysmessage  *)
(***************************************************************************)
\* shard_item as it would be without the Remove sibling
shard_item_kept(removal, id) ==
    IF ~id.ok \/ id.val \notin ShardIds THEN ItemErr("invalid shard type")
    ELSE ItemOk(Item("Shard", id.val))
shard_item(removal, id) ==
    IF ~id.ok \/ id.val \notin ShardIds THEN ItemErr("invalid shard type")
    ELSE IF removal THEN ItemOk(Item("RemoveShard", id.val))
    ELSE ItemOk(Item("Shard", id.val))
parse_shard(parts) ==
    IF parts = <<>> THEN ItemErr("missing shard type")
    ELSE IF ~end_of_item(Tail(parts)) THEN ItemErr("too many parts")
    ELSE shard_item(Operand(parts).removal, ParseUnsigned(Operand(parts).text, U8Max))

teleporter_item(removal, id) ==
    IF ~id.ok \/ id.val \notin TeleporterIds THEN ItemErr("invalid teleporter type")
    ELSE IF removal THEN ItemOk(Item("RemoveTeleporter", id.val))
    ELSE ItemOk(Item("Teleporter", id.val))
parse_teleporter(parts) ==
    IF parts = <<>> THEN ItemErr("missing teleporter type")
    ELSE IF ~end_of_item(Tail(parts)) THEN ItemErr("too many parts")
    ELSE teleporter_item(Operand(parts).removal, ParseUnsigned(Operand(parts).text, U8Max))

RECURSIVE Join(_, _)
\* parts.join(sep)
Join(parts, sep) ==
    IF parts = <<>> THEN <<>>
    ELSE IF Len(parts) = 1 THEN Head(parts)
    ELSE Head(parts) \o sep \o Join(Tail(parts), sep)

Message(message) == [kind |-> "Message", message |-> message]
parse_message(parts) ==
    IF parts = <<>> THEN ItemErr("missing message") ELSE ItemOk(Message(Join(parts, <<"|">>)))

\* The variants that are one id of an enum: bonus item, bonus upgrade, relic, sysmessage
enum_item(kind, ids, id) ==
    IF ~id.ok \/ id.val \notin ids THEN ItemErr("invalid id") ELSE ItemOk(Item(kind, id.val))
parse_enum(parts, kind, ids) ==
    IF parts = <<>> THEN ItemErr("missing id")
    ELSE IF ~end_of_item(Tail(parts)) THEN ItemErr("too many parts")
    ELSE enum_item(kind, ids, ParseUnsigned(Head(parts), U8Max))
parse_bonus_item(parts) == parse_enum(parts, "BonusItem", BonusItemIds)
parse_bonus_upgrade(parts) == parse_enum(parts, "BonusUpgrade", BonusUpgradeIds)
parse_relic(parts) == parse_enum(parts, "Relic", ZoneIds)
parse_sysmessage(parts) == parse_enum(parts, "SysMessage", SysMessageIds)

(***************************************************************************)
(* parse_pointer, parse_set_uber_state                                     *)
(***************************************************************************)
\* UberIdentifier::from_parts(group, id)
UberIdentifierFromParts(uber_group, uber_id) ==
    IF ParseUnsigned(uber_group, U16Max).ok /\ ParseUnsigned(uber_id, IdMax).ok
    THEN [ok |-> TRUE, group |-> ParseUnsigned(uber_group, U16Max).val,
          id |-> ParseUnsigned(uber_id, IdMax).val]
    ELSE [ok |-> FALSE, group |-> 0, id |-> 0]
Identifier(from_parts) == [group |-> from_parts.group, id |-> from_parts.id]

\* UberType::from_str
UberTypes == {<<"b", "o", "o", "l">>, <<"t", "e", "l", "e", "p", "o", "r", "t", "e", "r">>, <<"b", "y", "t", "e">>, <<"i", "n", "t">>, <<"f", "l", "o", "a", "t">>}

NoPointer == [some |-> FALSE, ok |-> FALSE, identifier |-> [group |-> 0, id |-> 0]]
pointer_of(pointer_parts) ==
    IF Len(pointer_parts) < 2 THEN [NoPointer EXCEPT !.some = TRUE]
    ELSE [some |-> TRUE, ok |-> UberIdentifierFromParts(pointer_parts[1], pointer_parts[2]).ok,
          identifier |-> Identifier(UberIdentifierFromParts(pointer_parts[1], pointer_parts[2]))]
\* parse_pointer: "$(group|id)" names an uber identifier; some is FALSE for
\* text that does not open a pointer
parse_pointer(str) ==
    IF ~StartsWith(str, <<"$", "(">>) THEN NoPointer
    ELSE IF str[Len(str)] # ")" \/ Len(str) < 3 THEN [NoPointer EXCEPT !.some = TRUE]
    ELSE pointer_of(SplitN(SubSeq(str, 3, Len(str) - 1), 2, <<"|">>))

\* parse_by_value: the literal parses as the declared type
parse_by_value(uber_type, value) ==
    CASE uber_type \in {<<"b", "o", "o", "l">>, <<"t", "e", "l", "e", "p", "o", "r", "t", "e", "r">>} -> ParseBoolOk(value)
      [] uber_type = <<"b", "y", "t", "e">> -> ParseUnsigned(value, U8Max).ok
      [] uber_type = <<"i", "n", "t">> -> ParseSigned(value, 0 - IdMax, IdMax).ok
      [] uber_type = <<"f", "l", "o", "a", "t">> -> ParseFloatOk(value)

BoundaryErr == [ok |-> FALSE, boundary |-> "none"]
\* parse_boundary: a boundary of a range is a pointer or a literal
parse_boundary(uber_type, value) ==
    IF parse_pointer(value).some
    THEN IF parse_pointer(value).ok
         THEN [ok |-> TRUE, boundary |-> "Pointer", identifier |-> parse_pointer(value).identifier]
         ELSE BoundaryErr
    ELSE IF parse_by_value(uber_type, value)
         THEN [ok |-> TRUE, boundary |-> "Value", value |-> value]
         ELSE BoundaryErr

UberStateItem(uber_identifier, uber_type, signed, sign, operator, skip) ==
    [kind |-> "UberState", uber_identifier |-> uber_identifier, uber_type |-> uber_type,
     signed |-> signed, sign |-> sign, operator |-> operator, skip |-> skip]

uber_state_range(uber_identifier, uber_type, signed, sign, skip, range_parts) ==
    IF Len(range_parts) < 2 THEN ItemErr("missing range end")
    ELSE IF ~parse_boundary(uber_type, Trim(range_parts[1])).ok THEN ItemErr("invalid range start")
    ELSE IF ~parse_boundary(uber_type, Trim(range_parts[2])).ok THEN ItemErr("invalid range end")
    ELSE ItemOk(UberStateItem(uber_identifier, uber_type, signed, sign,
                 [op |-> "Range", start |-> parse_boundary(uber_type, Trim(range_parts[1])),
                  end |-> parse_boundary(uber_type, Trim(range_parts[2]))], skip))
\* The operator of a set-uber-state item: a range, a pointer or a literal value
uber_state_operator(uber_identifier, uber_type, signed, sign, skip, remaining) ==
    IF StartsWith(remaining, <<"[">>)
    THEN IF Len(remaining) < 2 \/ remaining[Len(remaining)] # "]" THEN ItemErr("unmatched brackets")
         ELSE uber_state_range(uber_identifier, uber_type, signed, sign, skip,
                               SplitN(SubSeq(remaining, 2, Len(remaining) - 1), 2, <<",">>))
    ELSE IF parse_pointer(remaining).some
    THEN IF ~parse_pointer(remaining).ok THEN ItemErr("invalid pointer")
         ELSE ItemOk(UberStateItem(uber_identifier, uber_type, signed, sign,
                      [op |-> "Pointer", identifier |-> parse_pointer(remaining).identifier], skip))
    ELSE IF ~parse_by_value(uber_type, remaining) THEN ItemErr("failed to parse value")
    ELSE ItemOk(UberStateItem(uber_identifier, uber_type, signed, sign,
                 [op |-> "Value", value |-> remaining], skip))

SkipPart(last_part) == IF StartsWith(last_part, <<"s", "k", "i", "p", "=">>) THEN Drop(last_part, 5) ELSE last_part
uber_state_skipped(uber_identifier, uber_type, signed, sign, remaining, last_bar, skip_amount) ==
    IF skip_amount.ok
    THEN uber_state_operator(uber_identifier, uber_type, signed, sign, skip_amount.val > 0,
                             Take(remaining, last_bar - 1))
    ELSE uber_state_operator(uber_identifier, uber_type, signed, sign, FALSE, remaining)
\* The last_bar part, when it reads as a u8 with or without "skip=", is the skip amount
uber_state_skip(uber_identifier, uber_type, signed, sign, remaining, last_bar) ==
    IF last_bar = 0 THEN uber_state_operator(uber_identifier, uber_type, signed, sign, FALSE, remaining)
    ELSE uber_state_skipped(uber_identifier, uber_type, signed, sign, remaining, last_bar,
                            ParseUnsigned(SkipPart(Drop(remaining, last_bar)), U8Max))
\* uber_state_signed as it would be without the test for bool
uber_state_signed_any(uber_identifier, uber_type, remaining) ==
    IF StartsWith(remaining, <<"+">>) \/ StartsWith(remaining, <<"-">>)
    THEN uber_state_skip(uber_identifier, uber_type, TRUE, StartsWith(remaining, <<"+">>),
                         Tail(remaining), RFind(Tail(remaining), <<"|">>))
    ELSE uber_state_skip(uber_identifier, uber_type, FALSE, FALSE, remaining,
                         RFind(remaining, <<"|">>))
\* A leading '+' or '-' makes the item signed, which bool does not allow
uber_state_signed(uber_identifier, uber_type, remaining) ==
    IF StartsWith(remaining, <<"+">>) \/ StartsWith(remaining, <<"-">>)
    THEN IF uber_type = <<"b", "o", "o", "l">> THEN ItemErr("can't math with bools")
         ELSE uber_state_skip(uber_identifier, uber_type, TRUE, StartsWith(remaining, <<"+">>),
                              Tail(remaining), RFind(Tail(remaining), <<"|">>))
    ELSE uber_state_skip(uber_identifier, uber_type, FALSE, FALSE, remaining,
                         RFind(remaining, <<"|">>))
parse_set_uber_state(parts) ==
    IF Len(parts) < 1 THEN ItemErr("missing uber group")
    ELSE IF Len(parts) < 2 THEN ItemErr("missing uber id")
    ELSE IF ~UberIdentifierFromParts(parts[1], parts[2]).ok THEN ItemErr("invalid uber identifier")
    ELSE IF Len(parts) < 3 THEN ItemErr("missing uber state type")
    ELSE IF parts[3] \notin UberTypes THEN ItemErr("invalid uber state type")
    ELSE uber_state_signed(Identifier(UberIdentifierFromParts(parts[1], parts[2])), parts[3],
                           Join(Drop(parts, 3), <<"|">>))

(***************************************************************************)
(* parse_command and the parsers it dispatches to                          *)
(***************************************************************************)
RECURSIVE parse_item_parts(_)

parse_nullary(parts, command) ==
    IF ~end_of_item(parts) THEN ItemErr("too many parts") ELSE ItemOk(Command(command, <<>>))
parse_autosave(parts) == parse_nullary(parts, "Autosave")
parse_checkpoint(parts) == parse_nullary(parts, "Checkpoint")
parse_magic(parts) == parse_nullary(parts, "Magic")

parse_set_resource(parts) ==
    IF Len(parts) < 1 THEN ItemErr("missing resource type")
    ELSE IF ~ParseUnsigned(parts[1], U8Max).ok
            \/ ParseUnsigned(parts[1], U8Max).val \notin ResourceIds
    THEN ItemErr("invalid resource type")
    ELSE IF Len(parts) < 2 THEN ItemErr("missing resource amount")
    ELSE IF ~ParseSigned(parts[2], I16Min, I16Max).ok THEN ItemErr("invalid resource amount")
    ELSE IF ~end_of_item(Drop(parts, 2)) THEN ItemErr("too many parts")
    ELSE ItemOk(Command("Resource", [resource |-> ParseUnsigned(parts[1], U8Max).val,
                                     amount |-> ParseSigned(parts[2], I16Min, I16Max).val]))

\* parse_stop: group, id and value name the uber state that stops a multipickup
parse_stop(parts, command) ==
    IF Len(parts) < 1 THEN ItemErr("missing uber group")
    ELSE IF Len(parts) < 2 THEN ItemErr("missing uber id")
    ELSE IF Len(parts) < 3 THEN ItemErr("missing uber value")
    ELSE IF ~end_of_item(Drop(parts, 3)) THEN ItemErr("too many parts")
    ELSE IF ~UberStateFromParts(parts[1], parts[2] \o <<"=">> \o parts[3]).ok
    THEN ItemErr("invalid uber state")
    ELSE ItemOk(Command(command,
                 [uber_state |-> UberStateFromParts(parts[1], parts[2] \o <<"=">> \o parts[3])]))

parse_toggle(parts) ==
    IF Len(parts) < 1 THEN ItemErr("missing toggle command type")
    ELSE IF ~ParseUnsigned(parts[1], U8Max).ok
            \/ ParseUnsigned(parts[1], U8Max).val \notin ToggleCommandIds
    THEN ItemErr("invalid toggle command type")
    ELSE IF Len(parts) < 2 THEN ItemErr("missing toggle command value")
    ELSE IF parts[2] \notin {<<"0">>, <<"1">>} THEN ItemErr("invalid toggle command value")
    ELSE IF ~end_of_item(Drop(parts, 2)) THEN ItemErr("too many parts")
    ELSE ItemOk(Command("Toggle", [target |-> ParseUnsigned(parts[1], U8Max).val,
                                   on |-> parts[2] = <<"1">>]))

parse_warp(parts) ==
    IF Len(parts) < 1 THEN ItemErr("missing x coordinate")
    ELSE IF ~ParseR32(parts[1]).ok THEN ItemErr("invalid x coordinate")
    ELSE IF Len(parts) < 2 THEN ItemErr("missing x coordinate")
    ELSE IF ~ParseR32(parts[2]).ok THEN ItemErr("invalid x coordinate")
    ELSE IF ~end_of_item(Drop(parts, 2)) THEN ItemErr("too many parts")
    ELSE ItemOk(Command("Warp",
                 [position |-> Position(ParseR32(parts[1]).val, ParseR32(parts[2]).val)]))

\* parse_timer: an uber state, of which the identifier is kept
parse_timer(parts, command) ==
    IF ~parse_uber_state(parts).ok THEN ItemErr("invalid uber state")
    ELSE IF ~end_of_item(Drop(parts, 2)) THEN ItemErr("too many parts")
    ELSE ItemOk(Command(command, [identifier |-> UberIdentifier(parse_uber_state(parts))]))

parse_intercept(parts) ==
    IF Len(parts) < 1 THEN ItemErr("missing intercept")
    ELSE IF ~ParseSigned(parts[1], 0 - IdMax, IdMax).ok THEN ItemErr("invalid intercept")
    ELSE IF Len(parts) < 2 THEN ItemErr("missing set")
    ELSE IF ~ParseSigned(parts[2], 0 - IdMax, IdMax).ok THEN ItemErr("invalid set")
    ELSE IF ~end_of_item(Drop(parts, 2)) THEN ItemErr("too many parts")
    ELSE ItemOk(Command("StateRedirect",
                 [intercept |-> ParseSigned(parts[1], 0 - IdMax, IdMax).val,
                  set |-> ParseSigned(parts[2], 0 - IdMax, IdMax).val]))

\* parse_set_player: the amount of SetHealth, SetEnergy and SetSpiritLight
parse_set_player(parts, command) ==
    IF Len(parts) < 1 THEN ItemErr("missing amount")
    ELSE IF ~ParseSigned(parts[1], I16Min, I16Max).ok THEN ItemErr("invalid amount")
    ELSE IF ~end_of_item(Tail(parts)) THEN ItemErr("too many parts")
    ELSE ItemOk(Command(command, [amount |-> ParseSigned(parts[1], I16Min, I16Max).val]))

parse_equip(parts) ==
    IF Len(parts) < 1 THEN ItemErr("missing equip slot")
    ELSE IF ~ParseUnsigned(parts[1], U8Max).ok \/ ParseUnsigned(parts[1], U8Max).val > 2
    THEN ItemErr("invalid equip slot")
    ELSE IF Len(parts) < 2 THEN ItemErr("missing ability to equip")
    ELSE IF ~ParseUnsigned(parts[2], U16Max).ok THEN ItemErr("invalid ability to equip")
    ELSE IF ~end_of_item(Drop(parts, 2)) THEN ItemErr("too many parts")
    ELSE ItemOk(Command("Equip", [slot |-> ParseUnsigned(parts[1], U8Max).val,
                                  ability |-> ParseUnsigned(parts[2], U16Max).val]))

parse_ahk_signal(parts) ==
    IF Len(parts) < 1 THEN ItemErr("missing ahk signal specifier")
    ELSE IF ~end_of_item(Tail(parts)) THEN ItemErr("too many parts")
    ELSE ItemOk(Command("AhkSignal", [signal |-> parts[1]]))

if_item(command, uber_state, item) ==
    IF ~item.ok THEN item
    ELSE ItemOk(Command(command, [uber_state |-> uber_state, item |-> item.item]))
\* parse_if: an uber state to compare with, then the item the rest of the parts name
parse_if(parts, command) ==
    IF Len(parts) < 1 THEN ItemErr("missing uber group")
    ELSE IF Len(parts) < 2 THEN ItemErr("missing uber id")
    ELSE IF Len(parts) < 3 THEN ItemErr("missing uber value")
    ELSE IF ~UberStateFromParts(parts[1], parts[2] \o <<"=">> \o parts[3]).ok
    THEN ItemErr("invalid uber state")
    ELSE if_item(command, UberStateFromParts(parts[1], parts[2] \o <<"=">> \o parts[3]),
                 parse_item_parts(Drop(parts, 3)))

parse_disable_sync(parts) ==
    IF ~parse_uber_state(parts).ok THEN ItemErr("invalid uber state")
    ELSE IF ~end_of_item(Drop(parts, 2)) THEN ItemErr("too many parts")
    ELSE ItemOk(Command("DisableSync", [uber_state |-> parse_uber_state(parts)]))
\* parse_enable_sync builds Command::DisableSync, as parse_disable_sync does
parse_enable_sync(parts) ==
    IF ~parse_uber_state(parts).ok THEN ItemErr("invalid uber state")
    ELSE IF ~end_of_item(Drop(parts, 2)) THEN ItemErr("too many parts")
    ELSE ItemOk(Command("DisableSync", [uber_state |-> parse_uber_state(parts)]))

parse_create_warp(parts) ==
    IF Len(parts) < 1 THEN ItemErr("missing warp id")
    ELSE IF ~ParseUnsigned(parts[1], U8Max).ok THEN ItemErr("invalid warp id")
    ELSE IF Len(parts) < 2 THEN ItemErr("missing x position")
    ELSE IF ~ParseR32(parts[2]).ok THEN ItemErr("invalid x position")
    ELSE IF Len(parts) < 3 THEN ItemErr("missing y position")
    ELSE IF ~ParseR32(parts[3]).ok THEN ItemErr("invalid y position")
    ELSE IF ~end_of_item(Drop(parts, 3)) THEN ItemErr("too many parts")
    ELSE ItemOk(Command("CreateWarp",
                 [id |-> ParseUnsigned(parts[1], U8Max).val,
                  position |-> Position(ParseR32(parts[2]).val, ParseR32(parts[3]).val)]))

parse_destroy_warp(parts) ==
    IF Len(parts) < 1 THEN ItemErr("missing warp id")
    ELSE IF ~ParseUnsigned(parts[1], U8Max).ok THEN ItemErr("invalid warp id")
    ELSE IF ~end_of_item(Tail(parts)) THEN ItemErr("too many parts")
    ELSE ItemOk(Command("DestroyWarp", [id |-> ParseUnsigned(parts[1], U8Max).val]))

if_box_item(position1, position2, item) ==
    IF ~item.ok THEN item
    ELSE ItemOk(Command("IfBox", [position1 |-> position1, position2 |-> position2,
                                  item |-> item.item]))
parse_if_box(parts) ==
    IF Len(parts) < 4 /\ \A i \in 1..Len(parts) : ParseR32(parts[i]).ok
    THEN ItemErr("missing boundary coordinates")
    ELSE IF \E i \in 1..4 : i <= Len(parts) /\ ~ParseR32(parts[i]).ok
    THEN ItemErr("invalid boundary coordinate")
    ELSE if_box_item(Position(ParseR32(parts[1]).val, ParseR32(parts[2]).val),
                     Position(ParseR32(parts[3]).val, ParseR32(parts[4]).val),
                     parse_item_parts(Drop(parts, 4)))

if_self_item(command, value, item) ==
    IF ~item.ok THEN item ELSE ItemOk(Command(command, [value |-> value, item |-> item.item]))
\* parse_if_self: a value to compare the pickup's own state with, then an item
parse_if_self(parts, command) ==
    IF Len(parts) < 1 THEN ItemErr("missing uber value")
    ELSE if_self_item(command, parts[1], parse_item_parts(Tail(parts)))

parse_unequip(parts) ==
    IF Len(parts) < 1 THEN ItemErr("missing ability to unequip")
    ELSE IF ~ParseUnsigned(parts[1], U16Max).ok THEN ItemErr("invalid ability to unequip")
    ELSE IF ~end_of_item(Tail(parts)) THEN ItemErr("too many parts")
    ELSE ItemOk(Command("UnEquip", [ability |-> ParseUnsigned(parts[1], U16Max).val]))

parse_command(parts) ==
    IF parts = <<>> THEN ItemErr("missing command item type")
    ELSE CASE Head(parts) = <<"0">> -> parse_autosave(Tail(parts))
           [] Head(parts) = <<"1">> -> parse_set_resource(Tail(parts))
           [] Head(parts) = <<"2">> -> parse_checkpoint(Tail(parts))
           [] Head(parts) = <<"3">> -> parse_magic(Tail(parts))
           [] Head(parts) = <<"4">> -> parse_stop(Tail(parts), "StopEqual")
           [] Head(parts) = <<"5">> -> parse_stop(Tail(parts), "StopGreater")
           [] Head(parts) = <<"6">> -> parse_stop(Tail(parts), "StopLess")
           [] Head(parts) = <<"7">> -> parse_toggle(Tail(parts))
           [] Head(parts) = <<"8">> -> parse_warp(Tail(parts))
           [] Head(parts) = <<"9">> -> parse_timer(Tail(parts), "StartTimer")
           [] Head(parts) = <<"1", "0">> -> parse_timer(Tail(parts), "StopTimer")
           [] Head(parts) = <<"1", "1">> -> parse_intercept(Tail(parts))
           [] Head(parts) = <<"1", "2">> -> parse_set_player(Tail(parts), "SetHealth")
           [] Head(parts) = <<"1", "3">> -> parse_set_player(Tail(parts), "SetEnergy")
           [] Head(parts) = <<"1", "4">> -> parse_set_player(Tail(parts), "SetSpiritLight")
           [] Head(parts) = <<"1", "5">> -> parse_equip(Tail(parts))
           [] Head(parts) = <<"1", "6">> -> parse_ahk_signal(Tail(parts))
           [] Head(parts) = <<"1", "7">> -> parse_if(Tail(parts), "IfEqual")
           [] Head(parts) = <<"1", "8">> -> parse_if(Tail(parts), "IfGreater")
           [] Head(parts) = <<"1", "9">> -> parse_if(Tail(parts), "IfLess")
           [] Head(parts) = <<"2", "0">> -> parse_disable_sync(Tail(parts))
           [] Head(parts) = <<"2", "1">> -> parse_enable_sync(Tail(parts))
           [] Head(parts) = <<"2", "2">> -> parse_create_warp(Tail(parts))
           [] Head(parts) = <<"2", "3">> -> parse_destroy_warp(Tail(parts))
           [] Head(parts) = <<"2", "4">> -> parse_if_box(Tail(parts))
           [] Head(parts) = <<"2", "5">> -> parse_if_self(Tail(parts), "IfSelfEqual")
           [] Head(parts) = <<"2", "6">> -> parse_if_self(Tail(parts), "IfSelfGreater")
           [] Head(parts) = <<"2", "7">> -> parse_if_self(Tail(parts), "IfSelfLess")
           [] Head(parts) = <<"2", "8">> -> parse_unequip(Tail(parts))
           [] OTHER -> ItemErr("invalid command type")

(***************************************************************************)
(* parse_wheelcommand, parse_shopcommand                                   *)
(***************************************************************************)
Icon(icon) == [icon_type |-> SplitN(icon, 2, <<":">>)[1], icon_id |-> SplitN(icon, 2, <<":">>)[2]]
WheelCommand(command, args) == [kind |-> "WheelCommand", command |-> command, args |-> args]
ShopCommand(command, args) == [kind |-> "ShopCommand", command |-> command, args |-> args]

\* parse_wheel_item_position: the wheel id and the position on the wheel
parse_wheel_item_position(parts) ==
    IF Len(parts) < 1 THEN "missing wheel id"
    ELSE IF ~ParseUnsigned(parts[1], U16Max).ok THEN "invalid wheel id"
    ELSE IF Len(parts) < 2 THEN "missing wheel item position"
    ELSE IF ~ParseUnsigned(parts[2], U8Max).ok THEN "invalid wheel item position"
    ELSE "ok"
Wheel(parts) == ParseUnsigned(parts[1], U16Max).val
WheelPosition(parts) == ParseUnsigned(parts[2], U8Max).val

\* parse_wheel_set_name and parse_wheel_set_description: the rest of the parts is the text
parse_wheel_text(parts, command) ==
    IF parse_wheel_item_position(parts) # "ok" THEN ItemErr(parse_wheel_item_position(parts))
    ELSE IF Drop(parts, 2) = <<>> THEN ItemErr("missing text")
    ELSE ItemOk(WheelCommand(command, [wheel |-> Wheel(parts), position |-> WheelPosition(parts),
                                       text |-> Join(Drop(parts, 2), <<"|">>)]))
parse_wheel_set_icon(parts) ==
    IF parse_wheel_item_position(parts) # "ok" THEN ItemErr(parse_wheel_item_position(parts))
    ELSE IF Len(parts) < 3 THEN ItemErr("missing icon")
    ELSE IF ~parse_icon_ok(parts[3]) THEN ItemErr("invalid wheel icon")
    ELSE IF ~end_of_item(Drop(parts, 3)) THEN ItemErr("too many parts")
    ELSE ItemOk(WheelCommand("SetIcon", [wheel |-> Wheel(parts), position |-> WheelPosition(parts),
                                         icon |-> Icon(parts[3])]))
parse_wheel_set_color(parts) ==
    IF parse_wheel_item_position(parts) # "ok" THEN ItemErr(parse_wheel_item_position(parts))
    ELSE IF Len(parts) < 6 /\ \A i \in 3..Len(parts) : ParseUnsigned(parts[i], U8Max).ok
    THEN ItemErr("missing channel")
    ELSE IF \E i \in 3..6 : i <= Len(parts) /\ ~ParseUnsigned(parts[i], U8Max).ok
    THEN ItemErr("invalid channel")
    ELSE IF ~end_of_item(Drop(parts, 6)) THEN ItemErr("too many parts")
    ELSE ItemOk(WheelCommand("SetColor",
                 [wheel |-> Wheel(parts), position |-> WheelPosition(parts),
                  rgba |-> [i \in 1..4 |-> ParseUnsigned(parts[i + 2], U8Max).val]]))
wheel_item(parts, item) ==
    IF ~item.ok THEN item
    ELSE ItemOk(WheelCommand("SetItem", [wheel |-> Wheel(parts), position |-> WheelPosition(parts),
                                         bind |-> parts[3], item |-> item.item]))
parse_wheel_set_item(parts) ==
    IF parse_wheel_item_position(parts) # "ok" THEN ItemErr(parse_wheel_item_position(parts))
    ELSE IF Len(parts) < 3 THEN ItemErr("missing bind")
    ELSE IF parts[3] \notin {<<"0">>, <<"1">>, <<"2">>, <<"3">>} THEN ItemErr("invalid bind")
    ELSE wheel_item(parts, parse_item_parts(Drop(parts, 3)))
parse_wheel_set_sticky(parts) ==
    IF Len(parts) < 1 THEN ItemErr("missing wheel id")
    ELSE IF ~ParseUnsigned(parts[1], U16Max).ok THEN ItemErr("invalid wheel id")
    ELSE IF Len(parts) < 2 THEN ItemErr("missing sticky boolean")
    ELSE IF ~ParseBoolOk(parts[2]) THEN ItemErr("invalid sticky boolean")
    ELSE IF ~end_of_item(Drop(parts, 2)) THEN ItemErr("too many parts")
    ELSE ItemOk(WheelCommand("SetSticky", [wheel |-> Wheel(parts), sticky |-> parts[2] = S_true]))
parse_wheel_switch_wheel(parts) ==
    IF Len(parts) < 1 THEN ItemErr("missing wheel id")
    ELSE IF ~ParseUnsigned(parts[1], U16Max).ok THEN ItemErr("invalid wheel id")
    ELSE IF ~end_of_item(Tail(parts)) THEN ItemErr("too many parts")
    ELSE ItemOk(WheelCommand("SwitchWheel", [wheel |-> Wheel(parts)]))
parse_wheel_remove_item(parts) ==
    IF parse_wheel_item_position(parts) # "ok" THEN ItemErr(parse_wheel_item_position(parts))
    ELSE IF ~end_of_item(Drop(parts, 2)) THEN ItemErr("too many parts")
    ELSE ItemOk(WheelCommand("RemoveItem", [wheel |-> Wheel(parts),
                                            position |-> WheelPosition(parts)]))
parse_wheel_clear_all(parts) ==
    IF ~end_of_item(parts) THEN ItemErr("too many parts")
    ELSE ItemOk(WheelCommand("ClearAll", <<>>))
parse_wheelcommand(parts) ==
    IF parts = <<>> THEN ItemErr("missing wheel command type")
    ELSE CASE Head(parts) = <<"0">> -> parse_wheel_text(Tail(parts), "SetName")
           [] Head(parts) = <<"1">> -> parse_wheel_text(Tail(parts), "SetDescription")
           [] Head(parts) = <<"2">> -> parse_wheel_set_icon(Tail(parts))
           [] Head(parts) = <<"3">> -> parse_wheel_set_color(Tail(parts))
           [] Head(parts) = <<"4">> -> parse_wheel_set_item(Tail(parts))
           [] Head(parts) = <<"5">> -> parse_wheel_set_sticky(Tail(parts))
           [] Head(parts) = <<"6">> -> parse_wheel_switch_wheel(Tail(parts))
           [] Head(parts) = <<"7">> -> parse_wheel_remove_item(Tail(parts))
           [] Head(parts) = <<"8">> -> parse_wheel_clear_all(Tail(parts))
           [] OTHER -> ItemErr("invalid wheel command type")

parse_shop_set_icon(parts) ==
    IF ~parse_uber_state(parts).ok THEN ItemErr("invalid uber state")
    ELSE IF Len(parts) < 3 THEN ItemErr("missing icon")
    ELSE IF ~parse_icon_ok(parts[3]) THEN ItemErr("invalid wheel icon")
    ELSE IF ~end_of_item(Drop(parts, 3)) THEN ItemErr("too many parts")
    ELSE ItemOk(ShopCommand("SetIcon", [uber_state |-> parse_uber_state(parts),
                                        icon |-> Icon(parts[3])]))
\* parse_shop_set_title and parse_shop_set_description: the text is optional
parse_shop_text(parts, command) ==
    IF ~parse_uber_state(parts).ok THEN ItemErr("invalid uber state")
    ELSE IF ~end_of_item(Drop(parts, 3)) THEN ItemErr("too many parts")
    ELSE ItemOk(ShopCommand(command, [uber_state |-> parse_uber_state(parts),
                                      text |-> SubSeq(parts, 3, Len(parts))]))
\* parse_shop_set_locked and parse_shop_set_visible: a boolean
parse_shop_flag(parts, command) ==
    IF ~parse_uber_state(parts).ok THEN ItemErr("invalid uber state")
    ELSE IF Len(parts) < 3 THEN ItemErr("missing boolean")
    ELSE IF ~ParseBoolOk(parts[3]) THEN ItemErr("invalid boolean")
    ELSE IF ~end_of_item(Drop(parts, 3)) THEN ItemErr("too many parts")
    ELSE ItemOk(ShopCommand(command, [uber_state |-> parse_uber_state(parts),
                                      flag |-> parts[3] = S_true]))
parse_shopcommand(parts) ==
    IF parts = <<>> THEN ItemErr("missing shop command type")
    ELSE CASE Head(parts) = <<"0">> -> parse_shop_set_icon(Tail(parts))
           [] Head(parts) = <<"1">> -> parse_shop_text(Tail(parts), "SetTitle")
           [] Head(parts) = <<"2">> -> parse_shop_text(Tail(parts), "SetDescription")
           [] Head(parts) = <<"3">> -> parse_shop_flag(Tail(parts), "SetLocked")
           [] Head(parts) = <<"4">> -> parse_shop_flag(Tail(parts), "SetVisible")
           [] OTHER -> ItemErr("invalid shop command type")

(***************************************************************************)
(* parse_item_parts, parse_item                                            *)
(***************************************************************************)
parse_item_parts(parts) ==
    IF parts = <<>> THEN ItemErr("invalid item type")
    ELSE CASE Head(parts) = <<"0">> -> parse_spirit_light(Tail(parts))
           [] Head(parts) = <<"1">> -> parse_resource(Tail(parts))
           [] Head(parts) = <<"2">> -> parse_skill(Tail(parts))
           [] Head(parts) = <<"3">> -> parse_shard(Tail(parts))
           [] Head(parts) = <<"4">> -> parse_command(Tail(parts))
           [] Head(parts) = <<"5">> -> parse_teleporter(Tail(parts))
           [] Head(parts) = <<"6">> -> parse_message(Tail(parts))
           [] Head(parts) = <<"8">> -> parse_set_uber_state(Tail(parts))
           [] Head(parts) = <<"9">> -> parse_world_event(Tail(parts))
           [] Head(parts) = <<"1", "0">> -> parse_bonus_item(Tail(parts))
           [] Head(parts) = <<"1", "1">> -> parse_bonus_upgrade(Tail(parts))
           [] Head(parts) \in {<<"1", "2">>, <<"1", "3">>} -> ItemErr("Hint Items are deprecated")
           [] Head(parts) = <<"1", "4">> -> parse_relic(Tail(parts))
           [] Head(parts) = <<"1", "5">> -> parse_sysmessage(Tail(parts))
           [] Head(parts) = <<"1", "6">> -> parse_wheelcommand(Tail(parts))
           [] Head(parts) = <<"1", "7">> -> parse_shopcommand(Tail(parts))
           [] OTHER -> ItemErr("invalid item type")

parse_item(item) == parse_item_parts(Split(Trim(item), <<"|">>))

(***************************************************************************)
(* The text an item is written as: Display for Command, Item::code         *)
(***************************************************************************)
DigitText == <<"0", "1", "2", "3", "4", "5", "6", "7", "8", "9">>
RECURSIVE NaturalText(_)
NaturalText(n) ==
    IF n < 10 THEN <<DigitText[n + 1]>> ELSE NaturalText(n \div 10) \o <<DigitText[(n % 10) + 1]>>
\* Display of an integer
IntegerText(n) == IF n < 0 THEN <<"-">> \o NaturalText(0 - n) ELSE NaturalText(n)
\* Display of an UberIdentifier: group|id
IdentifierText(identifier) ==
    NaturalText(identifier.group) \o <<"|">> \o NaturalText(identifier.id)

RECURSIVE ItemCode(_)
\* Display for Command
CommandText(command, args) ==
    CASE command = "Autosave" -> <<"0">>
      [] command = "Resource" ->
            <<"1", "|">> \o NaturalText(args.resource) \o <<"|">> \o IntegerText(args.amount)
      [] command = "Checkpoint" -> <<"2">>
      [] command = "Magic" -> <<"3">>
      [] command = "StopEqual" ->
            <<"4", "|">> \o IdentifierText(args.uber_state) \o <<"|">> \o args.uber_state.value
      [] command = "StopGreater" ->
            <<"5", "|">> \o IdentifierText(args.uber_state) \o <<"|">> \o args.uber_state.value
      [] command = "StopLess" ->
            <<"6", "|">> \o IdentifierText(args.uber_state) \o <<"|">> \o args.uber_state.value
      [] command = "Toggle" ->
            <<"7", "|">> \o NaturalText(args.target) \o <<"|">> \o (IF args.on THEN <<"1">> ELSE <<"0">>)
      [] command = "StartTimer" -> <<"9", "|">> \o IdentifierText(args.identifier)
      [] command = "StopTimer" -> <<"1", "0", "|">> \o IdentifierText(args.identifier)
      [] command = "StateRedirect" ->
            <<"1", "1", "|">> \o IntegerText(args.intercept) \o <<"|">> \o IntegerText(args.set)
      [] command = "SetHealth" -> <<"1", "2", "|">> \o IntegerText(args.amount)
      [] command = "SetEnergy" -> <<"1", "3", "|">> \o IntegerText(args.amount)
      [] command = "SetSpiritLight" -> <<"1", "4", "|">> \o IntegerText(args.amount)
      [] command = "Equip" ->
            <<"1", "5", "|">> \o NaturalText(args.slot) \o <<"|">> \o NaturalText(args.ability)
      [] command = "AhkSignal" -> <<"1", "6", "|">> \o args.signal
      [] command = "IfEqual" ->
            <<"1", "7", "|">> \o IdentifierText(args.uber_state) \o <<"|">> \o args.uber_state.value
                   \o <<"|">> \o ItemCode(args.item)
      [] command = "IfGreater" ->
            <<"1", "8", "|">> \o IdentifierText(args.uber_state) \o <<"|">> \o args.uber_state.value
                   \o <<"|">> \o ItemCode(args.item)
      [] command = "IfLess" ->
            <<"1", "9", "|">> \o IdentifierText(args.uber_state) \o <<"|">> \o args.uber_state.value
                   \o <<"|">> \o ItemCode(args.item)
      [] command = "DisableSync" -> <<"2", "0", "|">> \o IdentifierText(args.uber_state)
      [] command = "EnableSync" -> <<"2", "1", "|">> \o IdentifierText(args.uber_state)
\* Item::code: the major tag, then the operands
ItemCode(item) ==
    CASE item.kind = "SpiritLight" -> <<"0", "|">> \o NaturalText(item.n)
      [] item.kind = "RemoveSpiritLight" -> <<"0", "|", "-">> \o NaturalText(item.n)
      [] item.kind = "Resource" -> <<"1", "|">> \o NaturalText(item.n)
      [] item.kind = "Skill" -> <<"2", "|">> \o NaturalText(item.n)
      [] item.kind = "RemoveSkill" -> <<"2", "|", "-">> \o NaturalText(item.n)
      [] item.kind = "Command" -> <<"4", "|">> \o CommandText(item.command, item.args)
      [] item.kind = "Water" -> <<"9", "|", "0">>
      [] item.kind = "RemoveWater" -> <<"9", "|", "-", "0">>
(***************************************************************************)
(* Collaborators the header pass calls: Inventory, UberState, World        *)
(***************************************************************************)
EmptyMap == <<>>
MapGet(m, k) == IF k \in DOMAIN m THEN m[k] ELSE 0
MapPut(m, k, v) == (k :> v) @@ m
MapDel(m, k) == [j \in DOMAIN m \ {k} |-> m[j]]

\* Inventory::grant(item, count)
InventoryGrant(inv, item, count) ==
    IF count = 0 THEN inv ELSE MapPut(inv, item, MapGet(inv, item) + count)

\* Pool::remove(item, amount): takes what the pool holds, returns what it lacks
PoolRemove(inv, item, amount) ==
    [inv |-> IF MapGet(inv, item) > amount
                THEN MapPut(inv, item, MapGet(inv, item) - amount)
                ELSE MapDel(inv, item),
     negative |-> IF amount > MapGet(inv, item) THEN amount - MapGet(inv, item) ELSE 0]

\* World::preplace(uber_state, item): recorded as the call made
Preplace(w, uber_state, item) ==
    [w EXCEPT !.preplaced = Append(@, [group |-> uber_state.group, id |-> uber_state.id,
                                       value |-> uber_state.value, item |-> item])]

(***************************************************************************)
(* parse_count, read_args, apply_take_commands, apply_parameters           *)
(***************************************************************************)
parse_count_amount(item, index, amount) ==
    IF amount.ok THEN [count |-> amount.val, item |-> Drop(item, index)]
    ELSE [count |-> 1, item |-> item]
parse_count_at(item, index) ==
    IF index = 0 THEN [count |-> 1, item |-> item]
    ELSE parse_count_amount(item, index, ParseUnsigned(Trim(Take(item, index - 1)), U16Max))
\* parse_count: "Nx..." gives N and leaves what follows the x; anything else gives 1
parse_count(item) == parse_count_at(item, Find(item, <<"x">>))

\* Rng::gen_range(0..length): the scripted draw
GenRange(length, draw) == draw

RemoveAt(seq, i) == Take(seq, i - 1) \o Drop(seq, i)

Taken(status, line, pool, rest, calls) ==
    [status |-> status, line |-> line, pool |-> pool, rest |-> rest, calls |-> calls]

\* The loop of apply_take_commands over the parts after the first.
\* ds is the script of values gen_range returns ("invalid": it does not fit);
\* calls records the length gen_range was called with.
RECURSIVE take_loop(_, _, _, _, _)
\* take_draw as it would be with pool[index].clone() for pool.remove(index)
take_draw_kept(parts, processed, pool, ds, calls, index) ==
    take_loop(Tail(parts), processed \o pool[index + 1] \o Head(parts),
              pool, Tail(ds), Append(calls, Len(pool)))
take_draw(parts, processed, pool, ds, calls, index) ==
    take_loop(Tail(parts), processed \o pool[index + 1] \o Head(parts),
              RemoveAt(pool, index + 1), Tail(ds), Append(calls, Len(pool)))
\* take_loop as it would be without the test for the empty pool
take_loop_unchecked(parts, processed, pool, ds, calls) ==
    IF parts = <<>> THEN Taken("ok", processed, pool, ds, calls)
    ELSE IF Len(pool) = 0 THEN Taken("panic", processed, pool, ds, Append(calls, 0))
    ELSE IF ds = <<>> \/ Head(ds) >= Len(pool) THEN Taken("invalid", processed, pool, ds, calls)
    ELSE take_draw(parts, processed, pool, ds, calls, GenRange(Len(pool), Head(ds)))
take_loop(parts, processed, pool, ds, calls) ==
    IF parts = <<>> THEN Taken("ok", processed, pool, ds, calls)
    ELSE IF Len(pool) = 0 THEN Taken("err", processed, pool, ds, calls)
    ELSE IF ds = <<>> \/ Head(ds) >= Len(pool) THEN Taken("invalid", processed, pool, ds, calls)
    ELSE take_draw(parts, processed, pool, ds, calls, GenRange(Len(pool), Head(ds)))

apply_take_parts(parts, pool, ds) == take_loop(Tail(parts), Head(parts), pool, ds, <<>>)
apply_take_commands(line, pool, ds) == apply_take_parts(Split(line, S_take), pool, ds)

\* read_args: the 0-based index of the ')' closing the bracket opened before
\* start_index. depth is a u8: one more '(' at 255 traps or wraps to 0.
RECURSIVE read_args_loop(_, _, _, _)
read_args_byte(seed, index, depth, checks, d) ==
    IF seed[index + 1] = "(" /\ depth = U8Max /\ checks
        THEN [found |-> FALSE, index |-> 0, panic |-> TRUE]
    ELSE IF d = 0 THEN [found |-> TRUE, index |-> index, panic |-> FALSE]
    ELSE read_args_loop(seed, index + 1, d, checks)
read_args_loop(seed, index, depth, checks) ==
    IF index >= Len(seed) THEN [found |-> FALSE, index |-> 0, panic |-> FALSE]
    ELSE read_args_byte(seed, index, depth, checks,
                        IF seed[index + 1] = "(" THEN (depth + 1) % (U8Max + 1)
                        ELSE IF seed[index + 1] = ")" THEN depth - 1 ELSE depth)

read_args(seed, start_index, checks) == read_args_loop(seed, start_index, 1, checks)

MaxParamIter == 6

\* apply_parameters: replace each $PARAM(id) by parameters[id], scanning again
\* from where the replacement starts. iter bounds the scan of the model.
RECURSIVE apply_parameters_loop(_, _, _, _, _)
apply_parameters_value(line, parameters, start_index, end_index, checks, iter, identifier) ==
    IF identifier \notin DOMAIN parameters THEN [status |-> "err", line |-> line]
    ELSE IF iter = 0 THEN [status |-> "diverges", line |-> line]
    ELSE apply_parameters_loop(
             Take(line, start_index) \o parameters[identifier] \o Drop(line, end_index + 1),
             parameters, start_index, checks, iter - 1)
apply_parameters_args(line, parameters, start_index, checks, iter, args) ==
    IF args.panic THEN [status |-> "panic", line |-> line]
    ELSE IF ~args.found THEN [status |-> "ok", line |-> line]
    ELSE apply_parameters_value(line, parameters, start_index, args.index, checks, iter,
                                Trim(SubSeq(line, start_index + 7 + 1, args.index)))
apply_parameters_found(line, parameters, last_index, checks, iter, found) ==
    IF found = 0 THEN [status |-> "ok", line |-> line]
    ELSE apply_parameters_args(line, parameters, last_index + found - 1, checks, iter,
                               read_args(line, last_index + found - 1 + 7, checks))
apply_parameters_loop(line, parameters, last_index, checks, iter) ==
    apply_parameters_found(line, parameters, last_index, checks, iter,
                           Find(Drop(line, last_index), S_param))

apply_parameters(line, parameters, checks) ==
    apply_parameters_loop(line, parameters, 0, checks, MaxParamIter)

(***************************************************************************)
(* The !! commands                                                         *)
(***************************************************************************)
HeaderName == <<"h">>

SetExtension_at(path, dot) ==
    IF path = <<>> THEN path
    ELSE IF dot > 1 THEN Take(path, dot - 1) \o S_wotwrh
    ELSE path \o S_wotwrh
\* PathBuf::set_extension("wotwrh")
SetExtension(path) == SetExtension_at(path, RFind(path, <<".">>))

\* include_command as it would be with the path put first
include_command_first(include, dependencies) == <<SetExtension(include)>> \o dependencies
include_command(include, dependencies) == Append(dependencies, SetExtension(include))

exclude_command(name, exclude, excludes) == MapPut(excludes, exclude, name)

add_command_item(count, parsed, w) ==
    IF ~parsed.ok THEN [ok |-> FALSE, world |-> w]
    ELSE [ok |-> TRUE, world |-> [w EXCEPT !.pool = InventoryGrant(@, parsed.item, count)]]
add_command_counted(counted, w) == add_command_item(counted.count, parse_item(counted.item), w)
add_command(item, w) == add_command_counted(parse_count(item), w)

\* remove_from_pool as it would be without the SpiritLight(1) denomination
remove_from_pool_denominated(item, removed, w, negative_inventory) ==
    [world |-> [w EXCEPT !.pool = removed.inv],
     negative_inventory |->
         IF removed.negative > 0 THEN InventoryGrant(negative_inventory, item, removed.negative)
         ELSE negative_inventory]
remove_from_pool_removed(item, removed, w, negative_inventory) ==
    [world |-> [w EXCEPT !.pool = removed.inv],
     negative_inventory |->
         IF removed.negative > 0
             THEN InventoryGrant(negative_inventory,
                                 IF item.kind = "SpiritLight" THEN Item("SpiritLight", 1) ELSE item,
                                 removed.negative)
             ELSE negative_inventory]
remove_from_pool(item, amount, w, negative_inventory) ==
    remove_from_pool_removed(item, PoolRemove(w.pool, item, amount), w, negative_inventory)

remove_command_item(count, parsed, w, negative_inventory) ==
    IF ~parsed.ok THEN [ok |-> FALSE, world |-> w, negative_inventory |-> negative_inventory]
    ELSE [ok |-> TRUE] @@ remove_from_pool(parsed.item, count, w, negative_inventory)
remove_command_counted(counted, w, negative_inventory) ==
    remove_command_item(counted.count, parse_item(counted.item), w, negative_inventory)
remove_command(item, w, negative_inventory) ==
    remove_command_counted(parse_count(item), w, negative_inventory)


DetailPrefix(field) ==
    CASE field = "name" -> <<"n", "a", "m", "e", " ">>
      [] field = "display" -> <<"d", "i", "s", "p", "l", "a", "y", " ">>
      [] field = "price" -> <<"p", "r", "i", "c", "e", " ">>
      [] field = "icon" -> <<"i", "c", "o", "n", " ">>
DetailFields == {"name", "display", "price", "icon"}

NoDetails == [name |-> <<"-">>, display |-> <<"-">>, price |-> <<"-">>, icon |-> <<"-">>]
detail_command_parts(field, parts, custom_items) ==
    IF ~parse_item(parts[1]).ok \/ Len(parts) < 2 THEN [ok |-> FALSE, custom_items |-> custom_items]
    ELSE IF field = "price" /\ ~ParseUnsigned(parts[2], U16Max).ok
        THEN [ok |-> FALSE, custom_items |-> custom_items]
    ELSE IF field = "icon" /\ ~parse_icon_ok(parts[2])
        THEN [ok |-> FALSE, custom_items |-> custom_items]
    ELSE [ok |-> TRUE,
          custom_items |->
              MapPut(custom_items, parts[1],
                     [(IF parts[1] \in DOMAIN custom_items THEN custom_items[parts[1]] ELSE NoDetails)
                          EXCEPT ![field] = parts[2]])]
\* name_command, display_command, price_command, icon_command: "ITEM TEXT"
\* sets one field of custom_items[ITEM]
detail_command(field, text, custom_items) ==
    detail_command_parts(field, SplitN(text, 2, <<" ">>), custom_items)

parameter_command_value(identifier, parameter_type, value, parameters) ==
    IF CASE parameter_type = S_bool -> ParseBoolOk(value)
         [] parameter_type = S_int -> ParseSignedOk(value)
         [] parameter_type = S_float -> ParseFloatOk(value)
         [] parameter_type = S_string -> TRUE
         [] OTHER -> FALSE
        THEN [ok |-> TRUE, parameters |-> MapPut(parameters, identifier, value)]
    ELSE [ok |-> FALSE, parameters |-> parameters]
parameter_command_default(identifier, default_parts, parameters, values) ==
    parameter_command_value(
        identifier,
        IF Len(default_parts) > 1 THEN default_parts[1] ELSE S_string,
        IF identifier \in DOMAIN values THEN values[identifier]
        ELSE IF Len(default_parts) > 1 THEN default_parts[2] ELSE default_parts[1],
        parameters)
parameter_command_parts(parts, parameters, values) ==
    IF Len(parts) < 2 THEN [ok |-> FALSE, parameters |-> parameters]
    ELSE parameter_command_default(parts[1], SplitN(parts[2], 2, <<":">>), parameters, values)
parameter_command(parameter, parameters, values) ==
    parameter_command_parts(SplitN(parameter, 2, <<" ">>), parameters, values)

\* The characters of U+0020..U+007E in code point order (quote, backslash and
\* backtick stand as their names)
CharOrder ==
    <<" ", "!", "U+0022", "#", "$", "%", "&", "'", "(", ")", "*", "+", ",", "-", ".", "/",
      "0", "1", "2", "3", "4", "5", "6", "7", "8", "9", ":", ";", "<", "=", ">", "?", "@",
      "A", "B", "C", "D", "E", "F", "G", "H", "I", "J", "K", "L", "M", "N", "O", "P", "Q",
      "R", "S", "T", "U", "V", "W", "X", "Y", "Z", "[", "U+005C", "]", "^", "_", "U+0060",
      "a", "b", "c", "d", "e", "f", "g", "h", "i", "j", "k", "l", "m", "n", "o", "p", "q",
      "r", "s", "t", "u", "v", "w", "x", "y", "z", "{", "|", "}", "~">>
CodePoint(c) == CHOOSE i \in 1..Len(CharOrder) : CharOrder[i] = c
CodeRange(lo, hi) == [i \in 1..(hi - lo + 1) |-> CharOrder[lo + i - 1]]
\* lower..=upper
CharRange(lower, upper) == CodeRange(CodePoint(lower), CodePoint(upper))

\* The for loop of pool_command over the variants: in each variant the first
\* '}' and the last '{' before it enclose l-u, which becomes one variant per
\* character; a variant without braces ends the loop
RECURSIVE expand_variants(_, _)
expand_range(variants, next_variants, start_index, end_index, range) ==
    expand_variants(Tail(variants),
                    next_variants \o
                    [i \in 1..Len(range) |->
                        Take(Head(variants), start_index - 1) \o <<range[i]>>
                            \o Drop(Head(variants), end_index)])
expand_bounds(variants, next_variants, start_index, end_index, bounds) ==
    IF Len(bounds[1]) # 1 \/ (Len(bounds) > 1 /\ Len(bounds[2]) # 1)
        THEN [ok |-> FALSE, next |-> next_variants]
    ELSE expand_range(variants, next_variants, start_index, end_index,
                      CharRange(bounds[1][1], IF Len(bounds) > 1 THEN bounds[2][1] ELSE bounds[1][1]))
expand_open(variants, next_variants, start_index, end_index) ==
    IF start_index = 0 THEN [ok |-> TRUE, next |-> next_variants]
    ELSE expand_bounds(variants, next_variants, start_index, end_index,
                       Split(SubSeq(Head(variants), start_index + 1, end_index - 1), <<"-">>))
expand_close(variants, next_variants, end_index) ==
    IF end_index = 0 THEN [ok |-> TRUE, next |-> next_variants]
    ELSE expand_open(variants, next_variants,
                     RFind(Take(Head(variants), end_index - 1), <<"{">>), end_index)
expand_variants(variants, next_variants) ==
    IF variants = <<>> THEN [ok |-> TRUE, next |-> next_variants]
    ELSE expand_close(variants, next_variants, Find(Head(variants), <<"}">>))

\* The outer loop of pool_command: until a pass yields no variant
RECURSIVE expand_all(_)
expand_step(variants, step) ==
    IF ~step.ok THEN [ok |-> FALSE, variants |-> variants]
    ELSE IF step.next = <<>> THEN [ok |-> TRUE, variants |-> variants]
    ELSE expand_all(step.next)
expand_all(variants) == expand_step(variants, expand_variants(variants, <<>>))

RECURSIVE Repeat(_, _)
Repeat(seq, n) == IF n <= 0 THEN <<>> ELSE seq \o Repeat(seq, n - 1)

pool_command_expanded(count, expanded, pool, checks) ==
    IF ~expanded.ok THEN [status |-> "err", pool |-> pool]
    ELSE IF count = 0 /\ checks THEN [status |-> "panic", pool |-> pool]
    ELSE [status |-> "ok",
          pool |-> pool \o expanded.variants \o Repeat(expanded.variants, count - 1)]
pool_command_counted(counted, pool, checks) ==
    pool_command_expanded(counted.count, expand_all(<<counted.item>>), pool, checks)
\* pool_command: count - 1 is a u16 subtraction (count = 0 traps or wraps); the
\* blueprint is appended once more for each of 1..count
pool_command(string, pool, checks) == pool_command_counted(parse_count(string), pool, checks)

Drawn(status, w, pool, rest, calls) ==
    [status |-> status, world |-> w, pool |-> pool, rest |-> rest, calls |-> calls]

\* The for loop of addpool_command
RECURSIVE addpool_loop(_, _, _, _, _)
addpool_added(count, added, pool, ds, calls) ==
    IF ~added.ok THEN Drawn("err", added.world, pool, ds, calls)
    ELSE addpool_loop(count - 1, added.world, pool, ds, calls)
addpool_draw(count, w, pool, ds, calls, index) ==
    addpool_added(count, add_command(pool[index + 1], w), RemoveAt(pool, index + 1),
                  Tail(ds), Append(calls, Len(pool)))
addpool_loop(count, w, pool, ds, calls) ==
    IF count = 0 THEN Drawn("ok", w, pool, ds, calls)
    ELSE IF Len(pool) = 0 THEN Drawn("err", w, pool, ds, calls)
    ELSE IF ds = <<>> \/ Head(ds) >= Len(pool) THEN Drawn("invalid", w, pool, ds, calls)
    ELSE addpool_draw(count, w, pool, ds, calls, GenRange(Len(pool), Head(ds)))

addpool_counted(counted, w, pool, ds, calls) ==
    IF Trim(counted.item) # <<>> THEN Drawn("err", w, pool, ds, calls)
    ELSE addpool_loop(counted.count, w, pool, ds, calls)
addpool_command(amount, w, pool, ds, calls) ==
    addpool_counted(parse_count(amount), w, pool, ds, calls)

flush_command(pool) == <<>>

set_command_found(identifier, w, sets, found) ==
    IF found = {} THEN [ok |-> FALSE, world |-> w, sets |-> sets]
    ELSE [ok |-> TRUE, world |-> [w EXCEPT !.sets = Append(@, w.graph[Min(found)].index)],
          sets |-> Append(sets, identifier)]
\* set_command: nothing to do without a graph; otherwise the node must exist
set_command(identifier, w, sets) ==
    IF w.graph = <<>> THEN [ok |-> TRUE, world |-> w, sets |-> sets]
    ELSE set_command_found(identifier, w, sets,
                           {i \in 1..Len(w.graph) : w.graph[i].identifier = identifier})

if_command_parts(parts, parameters) ==
    IF Len(parts) < 2 THEN [ok |-> FALSE, value |-> FALSE]
    ELSE IF parts[1] \notin DOMAIN parameters THEN [ok |-> FALSE, value |-> FALSE]
    ELSE [ok |-> TRUE, value |-> parts[2] = parameters[parts[1]]]
\* if_command as it would be if it only looked the parameter up
if_command_declared(comparison, parameters) ==
    [ok |-> SplitN(comparison, 2, <<" ">>)[1] \in DOMAIN parameters, value |-> TRUE]
\* if_command: "id value" is true iff parameters[id] = value
if_command(comparison, parameters) == if_command_parts(SplitN(comparison, 2, <<" ">>), parameters)

(***************************************************************************)
(* parse_header: one iteration of the loop over header.lines()             *)
(***************************************************************************)
I8Min == -128
I8Max == 127

\* depth is an i8: a step outside its range traps or wraps
WrapI8(x) == IF x > I8Max THEN x - 256 ELSE IF x < I8Min THEN x + 256 ELSE x
OverflowsI8(x) == x > I8Max \/ x < I8Min

Res(status, kind, r, w, c, rest, calls) ==
    [status |-> status, kind |-> kind, run |-> r, world |-> w, context |-> c,
     rest |-> rest, calls |-> calls]

skipped_depth(depth, r, w, c, checks, rest, calls) ==
    IF OverflowsI8(depth) /\ checks THEN Res("panic", "skipped", r, w, c, rest, calls)
    ELSE Res("continue", "skipped",
             [r EXCEPT !.depth = WrapI8(depth),
                       !.skip_until = IF WrapI8(depth) = r.skip_until THEN -1 ELSE r.skip_until],
             w, c, rest, calls)
\* skipped_line as it would be if it did not count the nested !!if
skipped_line_flat(trimmed, r, w, c, checks, rest, calls) ==
    skipped_depth(IF TrimEnd(trimmed) = S_bang_endif THEN r.depth - 1 ELSE r.depth,
                  r, w, c, checks, rest, calls)
\* The branch of parse_header taken while skip_until > -1
skipped_line(trimmed, r, w, c, checks, rest, calls) ==
    skipped_depth(IF TrimEnd(trimmed) = S_bang_endif THEN r.depth - 1
                  ELSE IF StartsWith(trimmed, S_bang_if) THEN r.depth + 1
                  ELSE r.depth,
                  r, w, c, checks, rest, calls)

Status(ok) == IF ok THEN "continue" ELSE "err"
Continue(status) == IF status = "ok" THEN "continue" ELSE status
After(command, prefix) == Trim(Drop(command, Len(prefix)))

on_add(added, r, c, rest, calls) == Res(Status(added.ok), "add", r, added.world, c, rest, calls)
on_remove(removed, r, c, rest, calls) ==
    Res(Status(removed.ok), "remove", r, removed.world,
        [c EXCEPT !.negative_inventory = removed.negative_inventory], rest, calls)
on_detail(field, set, r, w, c, rest, calls) ==
    Res(Status(set.ok), field, r, w, [c EXCEPT !.custom_items = set.custom_items], rest, calls)
header_detail(field, command, r, w, c, rest, calls) ==
    on_detail(field, detail_command(field, After(command, DetailPrefix(field)), c.custom_items),
              r, w, c, rest, calls)
on_parameter(declared, r, w, c, rest, calls) ==
    Res(Status(declared.ok), "parameter", [r EXCEPT !.parameters = declared.parameters],
        w, c, rest, calls)
on_pool(pooled, r, w, c, rest, calls) ==
    Res(Continue(pooled.status), "pool", [r EXCEPT !.pool = pooled.pool], w, c, rest, calls)
on_addpool(drawn, r, c) ==
    Res(Continue(drawn.status), "addpool", [r EXCEPT !.pool = drawn.pool], drawn.world, c,
        drawn.rest, drawn.calls)
on_set(set, r, c, rest, calls) ==
    Res(Status(set.ok), "set", r, set.world, [c EXCEPT !.sets = set.sets], rest, calls)
on_if(test, r, w, c, checks, rest, calls) ==
    IF ~test.ok THEN Res("err", "if", r, w, c, rest, calls)
    ELSE IF OverflowsI8(r.depth + 1) /\ checks THEN Res("panic", "if", r, w, c, rest, calls)
    ELSE Res("continue", "if",
             [r EXCEPT !.skip_until = IF test.value THEN @ ELSE r.depth,
                       !.depth = WrapI8(r.depth + 1)],
             w, c, rest, calls)
on_endif(r, w, c, checks, rest, calls) ==
    IF r.depth = 0 THEN Res("err", "endif", r, w, c, rest, calls)
    ELSE IF OverflowsI8(r.depth - 1) /\ checks THEN Res("panic", "endif", r, w, c, rest, calls)
    ELSE Res("continue", "endif", [r EXCEPT !.depth = WrapI8(r.depth - 1)], w, c, rest, calls)

\* The !! branch of parse_header
header_command(command, r, w, c, values, checks, rest, calls) ==
    IF StartsWith(command, S_include) THEN
        Res("continue", "include", r, w,
            [c EXCEPT !.dependencies = include_command(After(command, S_include), @)], rest, calls)
    ELSE IF StartsWith(command, S_exclude) THEN
        Res("continue", "exclude", r, w,
            [c EXCEPT !.excludes = exclude_command(HeaderName, After(command, S_exclude), @)],
            rest, calls)
    ELSE IF StartsWith(command, S_add) THEN
        on_add(add_command(After(command, S_add), w), r, c, rest, calls)
    ELSE IF StartsWith(command, S_remove) THEN
        on_remove(remove_command(After(command, S_remove), w, c.negative_inventory), r, c, rest, calls)
    ELSE IF \E field \in DetailFields : StartsWith(command, DetailPrefix(field)) THEN
        header_detail(CHOOSE field \in DetailFields : StartsWith(command, DetailPrefix(field)),
                      command, r, w, c, rest, calls)
    ELSE IF StartsWith(command, S_parameter) THEN
        on_parameter(parameter_command(After(command, S_parameter), r.parameters, values),
                     r, w, c, rest, calls)
    ELSE IF StartsWith(command, S_pool) THEN
        on_pool(pool_command(After(command, S_pool), r.pool, checks), r, w, c, rest, calls)
    ELSE IF StartsWith(command, S_addpool) THEN
        on_addpool(addpool_command(After(command, S_addpool), w, r.pool, rest, calls), r, c)
    ELSE IF TrimEnd(command) = S_flush THEN
        Res("continue", "flush", [r EXCEPT !.pool = flush_command(@)], w, c, rest, calls)
    ELSE IF StartsWith(command, S_set) THEN
        on_set(set_command(After(command, S_set), w, c.sets), r, c, rest, calls)
    ELSE IF StartsWith(command, S_if) THEN
        on_if(if_command(After(command, S_if), r.parameters), r, w, c, checks, rest, calls)
    ELSE IF TrimEnd(command) = S_endif THEN on_endif(r, w, c, checks, rest, calls)
    ELSE Res("err", "unknown", r, w, c, rest, calls)

timer_parts(line, parts, r, w, c, rest, calls) ==
    IF ~parse_uber_state(parts).ok THEN Res("err", "timer", r, w, c, rest, calls)
    ELSE IF ~parse_uber_state(Drop(parts, 2)).ok THEN Res("err", "timer", r, w, c, rest, calls)
    ELSE IF Len(parts) > 4 THEN Res("err", "timer", r, w, c, rest, calls)
    ELSE Res("continue", "timer", [r EXCEPT !.processed = @ \o line \o NL], w, c, rest, calls)
\* The "timer:" branch
timer_line(line, r, w, c, rest, calls) ==
    timer_parts(line, Split(Trim(Drop(line, Len(S_timer))), <<"|">>), r, w, c, rest, calls)

\* pickup_placed as it would be without processed.push('\n')
pickup_placed_unterminated(line, uber_state, item, removed, r, c, rest, calls) ==
    Res("continue", "pickup", [r EXCEPT !.processed = @ \o line],
        Preplace(removed.world, uber_state, item),
        [c EXCEPT !.negative_inventory = removed.negative_inventory], rest, calls)
pickup_placed(line, uber_state, item, removed, r, c, rest, calls) ==
    Res("continue", "pickup", [r EXCEPT !.processed = @ \o line \o NL],
        Preplace(removed.world, uber_state, item),
        [c EXCEPT !.negative_inventory = removed.negative_inventory], rest, calls)
\* The item that keeps placements off a location: Item::Message("6|f=0|quiet|noclear")
null_item == Message(S_noclear)
\* The state a set-uber-state item with a literal value reaches: "true" is the empty value
SpawnTarget(item) ==
    [ok |-> TRUE, group |-> item.uber_identifier.group, id |-> item.uber_identifier.id,
     value |-> IF item.operator.value = S_true THEN <<>> ELSE item.operator.value]
\* graph.nodes.iter().filter(can_place).any(uber_state == target)
NodeAt(w, target) ==
    \E i \in 1..Len(w.graph) : w.graph[i].can_place /\ w.graph[i].uber_state = target
\* pickup_spawn as it would be without the test for the spawn location
pickup_spawn_anywhere(uber_state, item, w) ==
    IF /\ item.kind = "UberState"
       /\ item.operator.op = "Value"
       /\ NodeAt(w, SpawnTarget(item))
    THEN Preplace(w, SpawnTarget(item), null_item)
    ELSE w
\* A set-uber-state item on spawn: the location it sets gets no item placed on it
pickup_spawn(uber_state, item, w) ==
    IF /\ item.kind = "UberState"
       /\ uber_state.group = 3 /\ uber_state.id = 0
       /\ item.operator.op = "Value"
       /\ NodeAt(w, SpawnTarget(item))
    THEN Preplace(w, SpawnTarget(item), null_item)
    ELSE w
pickup_item(line, uber_state, parsed, r, w, c, rest, calls) ==
    IF ~parsed.ok THEN Res("err", "pickup", r, w, c, rest, calls)
    ELSE pickup_placed(line, uber_state, parsed.item,
                       remove_from_pool(parsed.item, 1, pickup_spawn(uber_state, parsed.item, w),
                                        c.negative_inventory),
                       r, c, rest, calls)
pickup_state(line, parts, uber_state, r, w, c, rest, calls) ==
    IF ~uber_state.ok THEN Res("err", "pickup", r, w, c, rest, calls)
    ELSE IF Len(parts) < 3 THEN Res("err", "pickup", r, w, c, rest, calls)
    ELSE pickup_item(line, uber_state, parse_item(parts[3]), r, w, c, rest, calls)
pickup_parts(line, parts, r, w, c, rest, calls) ==
    pickup_state(line, parts, parse_uber_state(parts), r, w, c, rest, calls)
\* The pickup branch: "group|id|item"
pickup_line(line, trimmed, r, w, c, rest, calls) ==
    IF trimmed = <<>>
        THEN Res("continue", "blank", [r EXCEPT !.processed = @ \o line \o NL], w, c, rest, calls)
    ELSE pickup_parts(line, SplitN(trimmed, 3, <<"|">>), r, w, c, rest, calls)

\* The dispatch on the line once comments are stripped
line_dispatch(line, trimmed, r, w, c, values, checks, rest, calls) ==
    IF r.skip_until > -1 THEN skipped_line(trimmed, r, w, c, checks, rest, calls)
    ELSE IF StartsWith(trimmed, S_Flags) THEN
        Res("continue", "flags", r, w,
            [c EXCEPT !.flags = @ \o [i \in 1..Len(Split(Drop(trimmed, Len(S_Flags)), <<",">>)) |->
                                         Trim(Split(Drop(trimmed, Len(S_Flags)), <<",">>)[i])]],
            rest, calls)
    ELSE IF StartsWith(trimmed, S_bangbang)
        THEN header_command(Drop(trimmed, 2), r, w, c, values, checks, rest, calls)
    ELSE IF StartsWith(line, <<"!">>)
        THEN Res("continue", "verbatim", [r EXCEPT !.processed = @ \o Tail(line) \o NL],
                 w, c, rest, calls)
    ELSE IF StartsWith(line, S_timer) THEN timer_line(line, r, w, c, rest, calls)
    ELSE pickup_line(line, trimmed, r, w, c, rest, calls)

\* The comment filters: a "//" comment naming skip-validate drops the line,
\* any other comment is cut off
line_comment(line, whole, index, r, w, c, values, checks, rest, calls) ==
    IF index # 0 /\ Contains(Drop(whole, index - 1), S_skip_validate)
        THEN Res("continue", "dropped", r, w, c, rest, calls)
    ELSE line_dispatch(line, IF index = 0 THEN whole ELSE Take(whole, index - 1),
                       r, w, c, values, checks, rest, calls)
line_trimmed(line, whole, r, w, c, values, checks, rest, calls) ==
    IF StartsWith(whole, S_comment4) THEN Res("continue", "dropped", r, w, c, rest, calls)
    ELSE line_comment(line, whole, Find(whole, S_comment), r, w, c, values, checks, rest, calls)

\* After the expansions: a first line starting with '#' is the title
line_expanded(expanded, r, w, c, values, checks, rest, calls) ==
    IF expanded.status # "ok" THEN Res(expanded.status, "param", r, w, c, rest, calls)
    ELSE IF r.first_line /\ StartsWith(expanded.line, <<"#">>)
        THEN Res("continue", "title", [r EXCEPT !.first_line = FALSE], w, c, rest, calls)
    ELSE line_trimmed(expanded.line, Trim(expanded.line), [r EXCEPT !.first_line = FALSE],
                      w, c, values, checks, rest, calls)
line_taken(taken, r, w, c, values, checks) ==
    IF taken.status # "ok"
        THEN Res(taken.status, "take", [r EXCEPT !.pool = taken.pool], w, c, taken.rest, taken.calls)
    ELSE line_expanded(apply_parameters(taken.line, r.parameters, checks),
                       [r EXCEPT !.pool = taken.pool], w, c, values, checks,
                       taken.rest, taken.calls)

\* The body of the loop: ds scripts the values gen_range returns on this line
parse_header_line(r, w, c, values, checks, source, ds) ==
    line_taken(apply_take_commands(source, r.pool, ds), r, w, c, values, checks)

(***************************************************************************)
(* State machine of parse_header                                           *)
(***************************************************************************)
NewRun ==
    [processed |-> <<>>, pool |-> <<>>, parameters |-> EmptyMap,
     skip_until |-> -1, depth |-> 0, first_line |-> TRUE]
NewWorld == [pool |-> EmptyMap, preplaced |-> <<>>, sets |-> <<>>, graph |-> <<>>]
\* HeaderContext::default()
NewContext ==
    [dependencies |-> <<>>, excludes |-> EmptyMap, flags |-> <<>>, custom_items |-> EmptyMap,
     sets |-> <<>>, negative_inventory |-> EmptyMap]
NoStep == [kind |-> "none", line |-> <<>>, calls |-> <<>>]
NoTake ==
    [phase |-> "idle", line |-> <<>>, pool |-> <<>>, draws |-> <<>>, status |-> "",
     out |-> <<>>, left |-> <<>>]

S_A == <<"A">>
\* The parameter maps a caller injects for this header
ParamValues == {EmptyMap, (S_A :> <<"2">>)}

\* parse_header called with the world w and the context c
InitFrom(lines, w, c) ==
    /\ result = "running"
    /\ run = NewRun
    /\ world = w
    /\ context = c
    /\ header = <<>>
    /\ rng = <<>>
    /\ last = NoStep
    /\ param_values \in ParamValues
    /\ overflow_checks \in BOOLEAN
    /\ fuel = lines
InitState(lines) == InitFrom(lines, NewWorld, NewContext)
NoCall == [fn |-> "none", phase |-> "idle", input |-> <<>>, out |-> <<>>]
InitHeader(lines) == InitState(lines) /\ tk = NoTake /\ call = NoCall

Stepped(out, line, ds) ==
    /\ out.status # "invalid"
    /\ out.rest = <<>>
    /\ result' = IF out.status = "continue" THEN "running" ELSE out.status
    /\ run' = out.run
    /\ world' = out.world
    /\ context' = out.context
    /\ last' = [kind |-> out.kind, line |-> line, calls |-> out.calls]
    /\ header' = Append(header, line)
    /\ rng' = rng \o ds
    /\ fuel' = fuel - 1
    /\ UNCHANGED <<param_values, overflow_checks, tk, call>>

\* One iteration of `for line in header.lines()`, the header's next line being `line`
HeaderLine(line, ds) ==
    /\ result = "running"
    /\ fuel > 0
    /\ Stepped(parse_header_line(run, world, context, param_values, overflow_checks, line, ds),
               line, ds)

\* The end of the header: the trailing blank line, then Ok(processed)
HeaderEnd ==
    /\ result = "running"
    /\ result' = "ok"
    /\ run' = [run EXCEPT !.processed = @ \o NL]
    /\ last' = [kind |-> "end", line |-> <<>>, calls |-> <<>>]
    /\ UNCHANGED <<world, context, header, rng, param_values, overflow_checks, fuel, tk, call>>


\* A function called on its own, outside a header: the call, then its return
InitCall(fn, input) ==
    /\ InitState(0)
    /\ param_values = EmptyMap
    /\ ~overflow_checks
    /\ tk = NoTake
    /\ call = [fn |-> fn, phase |-> "ready", input |-> input, out |-> <<>>]
Returned(fn, out) ==
    /\ call.fn = fn
    /\ call.phase = "ready"
    /\ call' = [call EXCEPT !.phase = "done", !.out = out]
    /\ UNCHANGED <<result, run, world, context, header, rng, last, param_values,
                   overflow_checks, fuel, tk>>

(***************************************************************************)
(* where_is, how_many, postprocess                                         *)
(*                                                                         *)
(* env holds what the three share: seeds (the seeds as postprocess was     *)
(* given them), graph (the nodes) and players (the names in the settings). *)
(* Indices into a seed count from 0, as the code's do.                     *)
(***************************************************************************)
MaxWhereDepth == 6

\* str::lines
Lines(text) ==
    IF Split(text, NL)[Len(Split(text, NL))] = <<>>
    THEN Take(Split(text, NL), Len(Split(text, NL)) - 1)
    ELSE Split(text, NL)

RECURSIVE Alternatives(_, _)
\* The alternatives of a pattern: the texts between its '|', a backslash
\* making the character after it a literal
Alternatives(pattern, alternative) ==
    IF pattern = <<>> THEN {alternative}
    ELSE IF Head(pattern) = "\\" /\ Len(pattern) > 1
        THEN Alternatives(Drop(pattern, 2), Append(alternative, pattern[2]))
    ELSE IF Head(pattern) = "|" THEN {alternative} \cup Alternatives(Tail(pattern), <<>>)
    ELSE Alternatives(Tail(pattern), Append(alternative, Head(pattern)))
\* Regex::new("^(pattern)$").is_match(text), for patterns of literals, escaped
\* characters and alternation
is_match(pattern, text) == text \in Alternatives(pattern, <<>>)

\* The line of a seed without its comment and the space around it
SeedLine(line) ==
    IF Find(line, S_comment) = 0 THEN Trim(line) ELSE Trim(Take(line, Find(line, S_comment) - 1))
NoPickup(line) ==
    \/ line = <<>>
    \/ StartsWith(line, S_Flags) \/ StartsWith(line, S_Spawn) \/ StartsWith(line, S_timer)

\* Zone::try_from and Display for Zone
ZoneName(zone) ==
    CASE zone = 0 -> S_Marsh
      [] zone = 1 -> S_Hollow
      [] OTHER -> S_Zone
\* graph.nodes.iter().find(uber_state): the first node at the state, 0 for none
NodeOf(graph, uber_state) ==
    IF \E i \in 1..Len(graph) : graph[i].uber_state = uber_state
    THEN Min({i \in 1..Len(graph) : graph[i].uber_state = uber_state})
    ELSE 0
\* settings.players.get(index) or "Player N"
PlayerName(players, index) ==
    IF index < Len(players) THEN players[index + 1] ELSE S_Player \o NaturalText(index + 1)
\* (0..seeds.len()) without world_index
OtherWorlds(seeds, world_index) ==
    SelectSeq([i \in 1..Len(seeds) |-> i - 1], LAMBDA i : i # world_index)

Zone(status, zone) == [status |-> status, zone |-> zone]
RECURSIVE where_is(_, _, _, _)
RECURSIVE where_is_lines(_, _, _, _, _)
RECURSIVE where_is_shared(_, _, _, _, _, _, _)
where_is_other(pattern, uber_id, others, lines, world_index, env, depth, actual_zone) ==
    IF actual_zone.status # "ok" THEN actual_zone
    ELSE IF actual_zone.zone # S_Unknown
        THEN Zone("ok", PlayerName(env.players, Head(others)) \o S_s \o actual_zone.zone)
    ELSE where_is_shared(pattern, uber_id, Tail(others), lines, world_index, env, depth)
\* The multiworld share: the other worlds are asked for the pickup that sets 12|uber_id
where_is_shared(pattern, uber_id, others, lines, world_index, env, depth) ==
    IF others = <<>> THEN where_is_lines(pattern, lines, world_index, env, depth)
    ELSE where_is_other(pattern, uber_id, others, lines, world_index, env, depth,
                        where_is(S_shared_open \o uber_id \o S_shared_close, Head(others),
                                 env, depth - 1))
where_is_node(pattern, lines, world_index, env, depth, node) ==
    IF node # 0 /\ env.graph[node].zone >= 0
        THEN Zone("ok", ZoneName(env.graph[node].zone))
    ELSE where_is_lines(pattern, lines, world_index, env, depth)
where_is_parts(pattern, parts, lines, world_index, env, depth) ==
    IF Len(parts) < 3 THEN Zone("err", <<>>)
    ELSE IF ~is_match(pattern, parts[3])
        THEN where_is_lines(pattern, lines, world_index, env, depth)
    ELSE IF parts[1] = <<"1", "2">>
        THEN where_is_shared(pattern, parts[2], OtherWorlds(env.seeds, world_index), lines,
                             world_index, env, depth)
    ELSE IF parts[1] = <<"3">> /\ parts[2] \in {<<"0">>, <<"1">>} THEN Zone("ok", S_Spawn_zone)
    ELSE IF ~UberStateFromParts(parts[1], parts[2]).ok THEN Zone("err", <<>>)
    ELSE where_is_node(pattern, lines, world_index, env, depth,
                       NodeOf(env.graph, UberStateFromParts(parts[1], parts[2])))
where_is_lines(pattern, lines, world_index, env, depth) ==
    IF lines = <<>> THEN Zone("ok", S_Unknown)
    ELSE IF NoPickup(SeedLine(Head(lines)))
        THEN where_is_lines(pattern, Tail(lines), world_index, env, depth)
    ELSE where_is_parts(pattern, SplitN(SeedLine(Head(lines)), 3, <<"|">>), Tail(lines),
                        world_index, env, depth)
\* where_is as it would be with every match on spawn
where_is_spawn(pattern, world_index, env, depth) ==
    IF \E i \in 1..Len(Lines(env.seeds[world_index + 1])) :
           /\ Len(SplitN(SeedLine(Lines(env.seeds[world_index + 1])[i]), 3, <<"|">>)) = 3
           /\ is_match(pattern, SplitN(SeedLine(Lines(env.seeds[world_index + 1])[i]), 3, <<"|">>)[3])
    THEN Zone("ok", S_Spawn_zone)
    ELSE Zone("ok", S_Unknown)
\* where_is: the zone of the first pickup of the world whose item matches the
\* pattern. depth is what the stack still holds: the calls across worlds
\* nest without a bound when two shares name each other.
where_is(pattern, world_index, env, depth) ==
    IF depth = 0 THEN Zone("overflow", <<>>)
    ELSE where_is_lines(pattern, Lines(env.seeds[world_index + 1]), world_index, env, depth)

Locations(status, locations) == [status |-> status, locations |-> locations]
RECURSIVE how_many_lines(_, _, _, _, _, _)
\* other_seed.lines() of the other worlds in turn: a line "12|share_id|item" whose item matches
how_many_others(pattern, share_state, others, env) ==
    \E w \in 1..Len(others) : \E i \in 1..Len(Lines(env.seeds[others[w] + 1])) :
        /\ StartsWith(Lines(env.seeds[others[w] + 1])[i], share_state)
        /\ is_match(pattern, SeedLine(Drop(Lines(env.seeds[others[w] + 1])[i], Len(share_state))))
how_many_share(pattern, zone, item_parts, uber_state, lines, world_index, env, locations) ==
    IF item_parts[1] # <<"8">> \/ Len(item_parts) < 2 \/ item_parts[2] # <<"1", "2">>
        THEN how_many_lines(pattern, zone, lines, world_index, env, locations)
    ELSE IF Len(item_parts) < 3 THEN Locations("abort", locations)
    ELSE IF how_many_others(pattern, <<"1", "2", "|">> \o item_parts[3] \o <<"|">>,
                            OtherWorlds(env.seeds, world_index), env)
        THEN how_many_lines(pattern, zone, lines, world_index, env, Append(locations, uber_state))
    ELSE how_many_lines(pattern, zone, lines, world_index, env, locations)
how_many_state(pattern, zone, parts, uber_state, lines, world_index, env, locations) ==
    IF ~uber_state.ok THEN Locations("err", locations)
    ELSE IF ~\E i \in 1..Len(env.graph) :
                env.graph[i].zone = zone /\ env.graph[i].uber_state = uber_state
        THEN how_many_lines(pattern, zone, lines, world_index, env, locations)
    ELSE IF is_match(pattern, parts[3])
        THEN how_many_lines(pattern, zone, lines, world_index, env, Append(locations, uber_state))
    ELSE how_many_share(pattern, zone, Split(parts[3], <<"|">>), uber_state, lines, world_index,
                        env, locations)
how_many_parts(pattern, zone, parts, lines, world_index, env, locations) ==
    IF Len(parts) < 3 THEN Locations("err", locations)
    ELSE how_many_state(pattern, zone, parts, UberStateFromParts(parts[1], parts[2]), lines,
                        world_index, env, locations)
how_many_lines(pattern, zone, lines, world_index, env, locations) ==
    IF lines = <<>> THEN Locations("ok", locations)
    ELSE IF NoPickup(SeedLine(Head(lines)))
        THEN how_many_lines(pattern, zone, Tail(lines), world_index, env, locations)
    ELSE how_many_parts(pattern, zone, SplitN(SeedLine(Head(lines)), 3, <<"|">>), Tail(lines),
                        world_index, env, locations)
\* how_many: the pickups of the world in the zone whose item matches the
\* pattern, here or through a multiworld share
how_many(pattern, zone, world_index, env) ==
    how_many_lines(pattern, zone, Lines(env.seeds[world_index + 1]), world_index, env, <<>>)

\* The 0-based index of the first occurrence of p at or after from, -1 for none
FindFrom(seed, from, p) ==
    IF Find(Drop(seed, from), p) = 0 THEN -1 ELSE from + Find(Drop(seed, from), p) - 1
\* seed.replace_range(start_index..=end_index, text)
ReplaceRange(seed, start_index, end_index, text) ==
    Take(seed, start_index) \o text \o Drop(seed, end_index + 1)

Seed(status, seed) == [status |-> status, seed |-> seed]
RECURSIVE whereis_loop(_, _, _, _, _)
whereis_zone(seed, start_index, end_index, world_index, env, checks, zone) ==
    IF zone.status # "ok" THEN Seed(zone.status, seed)
    ELSE whereis_loop(ReplaceRange(seed, start_index, end_index, zone.zone), start_index,
                      world_index, env, checks)
whereis_args(seed, start_index, world_index, env, checks, args) ==
    IF args.panic THEN Seed("abort", seed)
    ELSE IF ~args.found THEN Seed("ok", seed)
    ELSE whereis_zone(seed, start_index, args.index, world_index, env, checks,
                      where_is(Trim(SubSeq(seed, start_index + 10, args.index)), world_index,
                               env, MaxWhereDepth))
whereis_found(seed, start_index, world_index, env, checks) ==
    IF start_index < 0 THEN Seed("ok", seed)
    ELSE whereis_args(seed, start_index, world_index, env, checks,
                      read_args(seed, start_index + 9, checks))
\* The first loop of postprocess over a seed: each $WHEREIS(pattern) becomes a zone
whereis_loop(seed, last_index, world_index, env, checks) ==
    whereis_found(seed, FindFrom(seed, last_index, S_WHEREIS), world_index, env, checks)

UberStateText(uber_state) == NaturalText(uber_state.group) \o <<",">> \o NaturalText(uber_state.id)
RECURSIVE LocationsText(_)
\* The locations joined with ',' and every '|' made a ','
LocationsText(locations) ==
    IF locations = <<>> THEN <<>>
    ELSE IF Len(locations) = 1 THEN UberStateText(Head(locations))
    ELSE UberStateText(Head(locations)) \o <<",">> \o LocationsText(Tail(locations))

RECURSIVE howmany_loop(_, _, _, _, _)
howmany_locations(seed, start_index, end_index, world_index, env, checks, locations) ==
    IF locations.status # "ok" THEN Seed(locations.status, seed)
    ELSE howmany_loop(ReplaceRange(seed, start_index, end_index,
                                   S_sysmessage \o LocationsText(locations.locations) \o <<"]">>),
                      start_index, world_index, env, checks)
howmany_zone(seed, start_index, end_index, world_index, env, checks, args) ==
    IF ~ParseUnsigned(Trim(args[1]), U8Max).ok
           \/ ParseUnsigned(Trim(args[1]), U8Max).val \notin ZoneIds
        THEN Seed("err", seed)
    ELSE howmany_locations(seed, start_index, end_index, world_index, env, checks,
                           how_many(IF Len(args) > 1 THEN Trim(args[2]) ELSE <<>>,
                                    ParseUnsigned(Trim(args[1]), U8Max).val, world_index, env))
howmany_args(seed, start_index, world_index, env, checks, args) ==
    IF args.panic THEN Seed("abort", seed)
    ELSE IF ~args.found THEN Seed("ok", seed)
    ELSE howmany_zone(seed, start_index, args.index, world_index, env, checks,
                      SplitN(SubSeq(seed, start_index + 10, args.index), 2, <<",">>))
howmany_found(seed, start_index, world_index, env, checks) ==
    IF start_index < 0 THEN Seed("ok", seed)
    ELSE howmany_args(seed, start_index, world_index, env, checks,
                      read_args(seed, start_index + 9, checks))
\* The second loop: each $HOWMANY(zone, pattern) becomes $[15|4|locations]
howmany_loop(seed, last_index, world_index, env, checks) ==
    howmany_found(seed, FindFrom(seed, last_index, S_HOWMANY), world_index, env, checks)

\* postprocess_seed as it would be without the second loop
postprocess_seed_whereis(resolved, world_index, env, checks) == resolved
postprocess_seed(resolved, world_index, env, checks) ==
    IF resolved.status # "ok" THEN resolved
    ELSE howmany_loop(resolved.seed, 0, world_index, env, checks)
RECURSIVE postprocess_worlds(_, _, _, _)
postprocess_world(seeds, world_index, env, checks, seed) ==
    IF seed.status # "ok" THEN [status |-> seed.status, seeds |-> seeds]
    ELSE postprocess_worlds([seeds EXCEPT ![world_index + 1] = seed.seed], world_index + 1, env,
                            checks)
postprocess_worlds(seeds, world_index, env, checks) ==
    IF world_index >= Len(seeds) THEN [status |-> "ok", seeds |-> seeds]
    ELSE postprocess_world(seeds, world_index, env, checks,
                           postprocess_seed(whereis_loop(seeds[world_index + 1], 0, world_index,
                                                         env, checks),
                                            world_index, env, checks))
\* postprocess: every seed in turn, the macros read against the seeds as they were given
postprocess(seeds, graph, players, checks) ==
    postprocess_worlds(seeds, 0, [seeds |-> seeds, graph |-> graph, players |-> players], checks)

(***************************************************************************)
(* validate_header                                                         *)
(*                                                                         *)
(* The header is first read by parse_header against an empty graph, then   *)
(* walked again for the uber states it occupies. The model covers headers  *)
(* that draw nothing at random and include no other header.                *)
(***************************************************************************)
RECURSIVE parse_header_lines(_, _, _, _, _)
parse_header_next(out, lines, checks) ==
    IF out.status # "continue" THEN out.status
    ELSE parse_header_lines(lines, out.run, out.world, out.context, checks)
\* parse_header over a whole header, no parameter value injected
parse_header_lines(lines, r, w, c, checks) ==
    IF lines = <<>> THEN "ok"
    ELSE parse_header_next(parse_header_line(r, w, c, EmptyMap, checks, Head(lines), <<>>),
                           Tail(lines), checks)

RECURSIVE TextLess(_, _)
\* Ord for str
TextLess(a, b) ==
    IF b = <<>> THEN FALSE
    ELSE IF a = <<>> THEN TRUE
    ELSE IF Head(a) # Head(b) THEN CodePoint(Head(a)) < CodePoint(Head(b))
    ELSE TextLess(Tail(a), Tail(b))
\* Ord for UberState: the group, the id, then the value
UberStateLess(a, b) ==
    IF a.group # b.group THEN a.group < b.group
    ELSE IF a.id # b.id THEN a.id < b.id
    ELSE TextLess(a.value, b.value)
RECURSIVE SortedStates(_)
\* sort_unstable and dedup
SortedStates(states) ==
    IF states = {} THEN <<>>
    ELSE <<CHOOSE a \in states : \A b \in states \ {a} : UberStateLess(a, b)>>
             \o SortedStates(states \ {CHOOSE a \in states : \A b \in states \ {a} :
                                           UberStateLess(a, b)})
RECURSIVE Dedup(_)
Dedup(states) ==
    IF Len(states) < 2 THEN states
    ELSE IF states[1] = states[2] THEN Dedup(Tail(states))
    ELSE <<Head(states)>> \o Dedup(Tail(states))
WithoutValue(uber_state) == [uber_state EXCEPT !.value = <<>>]
RECURSIVE remove_redundancies(_, _)
\* remove_redundancies as it would be if it kept every entry as it is
remove_redundancies_kept(occupied_states, index) == occupied_states
\* The loop over index: an entry with an empty value or one starting with +
\* or - loses its value, and every other entry of its identifier is dropped
remove_redundancies(occupied_states, index) ==
    IF index > Len(occupied_states) THEN occupied_states
    ELSE IF occupied_states[index].value = <<>>
            \/ Head(occupied_states[index].value) \in {"+", "-"}
        THEN remove_redundancies(
                 SelectSeq([occupied_states EXCEPT ![index] = WithoutValue(@)],
                           LAMBDA other :
                               \/ other = WithoutValue(occupied_states[index])
                               \/ other.group # occupied_states[index].group
                               \/ other.id # occupied_states[index].id),
                 index + 1)
    ELSE remove_redundancies(occupied_states, index + 1)

NewValidation ==
    [pool |-> <<>>, parameters |-> EmptyMap, first_line |-> TRUE, skip_line |-> FALSE,
     occupied_states |-> <<>>]
Validation(status, v) == [status |-> status, v |-> v]
Occupy(v, uber_state) == [v EXCEPT !.occupied_states = Append(@, uber_state)]
\* The value an item sets, as it is occupied
validate_value_raw(value) == value
validate_value(value) == IF value = S_true THEN <<"1">> ELSE value
validate_uber_state(item, v) ==
    IF item.uber_identifier.group # 9 THEN Validation("ok", v)
    ELSE IF item.operator.op # "Value" THEN Validation("ok", v)
    ELSE IF item.operator.value \in {S_false, <<"0">>} THEN Validation("ok", v)
    ELSE Validation("ok", Occupy(v, [ok |-> TRUE, group |-> item.uber_identifier.group,
                                      id |-> item.uber_identifier.id,
                                      value |-> validate_value(item.operator.value)]))
\* validate_command as it would be if a stop command were allowed on any pickup
validate_command_anywhere(item, uber_group, v) ==
    IF item.command \in {"StopEqual", "StopGreater", "StopLess"}
           /\ item.args.uber_state.group = 9
        THEN Validation("ok", Occupy(v, item.args.uber_state))
    ELSE Validation("ok", v)
validate_command(item, uber_group, v) ==
    IF item.command \in {"StartTimer", "StopTimer"}
        THEN Validation("ok", Occupy(v, [ok |-> TRUE, group |-> item.args.identifier.group,
                                         id |-> item.args.identifier.id,
                                         value |-> <<"+", "+">>]))
    ELSE IF item.command \in {"StopEqual", "StopGreater", "StopLess"}
        THEN IF uber_group # 9 THEN Validation("err", v)
             ELSE IF item.args.uber_state.group = 9
                 THEN Validation("ok", Occupy(v, item.args.uber_state))
             ELSE Validation("ok", v)
    ELSE Validation("ok", v)
validate_item(parsed, uber_group, v) ==
    IF ~parsed.ok THEN Validation("err", v)
    ELSE IF parsed.item.kind = "UberState" THEN validate_uber_state(parsed.item, v)
    ELSE IF parsed.item.kind = "Command" THEN validate_command(parsed.item, uber_group, v)
    ELSE Validation("ok", v)
\* validate_pickup as it would be without the entry of the pickup itself
validate_pickup_item(parts, uber_state, v) ==
    IF ~uber_state.ok THEN Validation("err", v)
    ELSE IF Len(parts) < 3 THEN Validation("err", v)
    ELSE validate_item(parse_item(parts[3]), uber_state.group, v)
validate_pickup(parts, uber_state, v) ==
    IF ~uber_state.ok THEN Validation("err", v)
    ELSE IF Len(parts) < 3
        THEN Validation("err", IF uber_state.group = 9 THEN Occupy(v, uber_state) ELSE v)
    ELSE validate_item(parse_item(parts[3]), uber_state.group,
                       IF uber_state.group = 9 THEN Occupy(v, uber_state) ELSE v)
validate_pooled(pooled, v) ==
    Validation(IF pooled.status = "ok" THEN "ok" ELSE pooled.status,
               [v EXCEPT !.pool = pooled.pool])
validate_declared(declared, v) ==
    Validation(IF declared.ok THEN "ok" ELSE "err", [v EXCEPT !.parameters = declared.parameters])
validate_drawn(drawn, v) ==
    Validation(IF drawn.status = "ok" THEN "ok" ELSE drawn.status, [v EXCEPT !.pool = drawn.pool])
validate_directive(command, v, checks) ==
    IF StartsWith(command, S_parameter)
        THEN validate_declared(parameter_command(After(command, S_parameter), v.parameters,
                                                 EmptyMap), v)
    ELSE IF StartsWith(command, S_pool)
        THEN validate_pooled(pool_command(Drop(command, Len(S_pool)), v.pool, checks), v)
    ELSE IF StartsWith(command, S_addpool)
        THEN validate_drawn(addpool_command(After(command, S_addpool), NewWorld, v.pool, <<>>,
                                            <<>>), v)
    ELSE IF Trim(command) = S_flush THEN Validation("ok", [v EXCEPT !.pool = flush_command(@)])
    ELSE Validation("ok", v)
validate_trimmed(trimmed, v, checks) ==
    IF trimmed = <<>> THEN Validation("ok", v)
    ELSE IF v.skip_line THEN Validation("ok", [v EXCEPT !.skip_line = FALSE])
    ELSE IF StartsWith(trimmed, S_bangbang) THEN validate_directive(Drop(trimmed, 2), v, checks)
    ELSE validate_pickup(
             SplitN(IF Head(trimmed) = "!" THEN Tail(trimmed) ELSE trimmed, 3, <<"|">>),
             parse_uber_state(SplitN(IF Head(trimmed) = "!" THEN Tail(trimmed) ELSE trimmed, 3,
                                     <<"|">>)),
             v)
validate_comment(trimmed, index, v, checks) ==
    IF index = 0 THEN validate_trimmed(trimmed, v, checks)
    ELSE validate_trimmed(Trim(Take(trimmed, index - 1)),
                          IF Contains(Drop(trimmed, index - 1), S_skip_validate)
                          THEN [v EXCEPT !.skip_line = TRUE] ELSE v,
                          checks)
validate_expanded(expanded, v, checks) ==
    IF expanded.status # "ok" THEN Validation(expanded.status, v)
    ELSE IF v.first_line /\ StartsWith(Trim(expanded.line), <<"#">>)
        THEN Validation("ok", [v EXCEPT !.first_line = FALSE])
    ELSE IF StartsWith(expanded.line, S_Flags) \/ StartsWith(expanded.line, S_timer)
        THEN Validation("ok", [v EXCEPT !.first_line = FALSE])
    ELSE validate_comment(Trim(expanded.line), Find(Trim(expanded.line), S_comment),
                          [v EXCEPT !.first_line = FALSE], checks)
validate_taken(taken, v, checks) ==
    IF taken.status # "ok" THEN Validation(taken.status, v)
    ELSE validate_expanded(apply_parameters(taken.line, v.parameters, checks),
                           [v EXCEPT !.pool = taken.pool], checks)
\* The body of the second loop of validate_header
validate_line(line, v, checks) == validate_taken(apply_take_commands(line, v.pool, <<>>), v, checks)
RECURSIVE validate_lines(_, _, _)
validate_next(validated, lines, checks) ==
    IF validated.status # "ok" THEN validated
    ELSE validate_lines(lines, validated.v, checks)
validate_lines(lines, v, checks) ==
    IF lines = <<>> THEN Validation("ok", v)
    ELSE validate_next(validate_line(Head(lines), v, checks), Tail(lines), checks)

Range(seq) == {seq[i] : i \in 1..Len(seq)}
\* What validate_header returns: the occupied states, sorted and without
\* redundancies; pushed is occupied_states as the loop left it
Occupied(validated) ==
    IF validated.status # "ok"
        THEN [status |-> validated.status, pushed |-> <<>>, occupied_states |-> <<>>]
    ELSE [status |-> "ok", pushed |-> validated.v.occupied_states,
          occupied_states |->
              Dedup(remove_redundancies(SortedStates(Range(validated.v.occupied_states)), 1))]
validate_header_parsed(parsed, lines, checks) ==
    IF parsed # "ok" THEN [status |-> parsed, pushed |-> <<>>, occupied_states |-> <<>>]
    ELSE Occupied(validate_lines(lines, NewValidation, checks))
validate_header(lines, checks) ==
    validate_header_parsed(parse_header_lines(lines, NewRun, NewWorld, NewContext, checks),
                           lines, checks)

(***************************************************************************)
(* The logic parser, src/src/parser.rs.  A token is its type and its text; *)
(* positions count from 0 as in the source, and an index behind the last   *)
(* token is the panic of an index out of bounds.                           *)
(***************************************************************************)
Token(name, value) == [name |-> name, value |-> value]
TokenAt(tokens, position) == tokens[position + 1]
TokenName(tokens, position) ==
    IF position < Len(tokens) THEN tokens[position + 1].name ELSE "OutOfBounds"

ParseContext(position, definitions, pathsets, quests, states) ==
    [position |-> position, definitions |-> definitions, pathsets |-> pathsets,
     quests |-> quests, states |-> states]
Advance(ctx) == [ctx EXCEPT !.position = @ + 1]
Retreat(ctx) == [ctx EXCEPT !.position = @ - 1]

\* Result<T, ParseError> together with the context the callee leaves behind
ParseOk(ctx, value) == [status |-> "ok", ctx |-> ctx, value |-> value]
ParseError(kind) == [status |-> kind, ctx |-> <<>>, value |-> <<>>]
Panic == ParseError("panic")

eat(tokens, ctx, expected_token_type) ==
    IF TokenName(tokens, ctx.position) = "OutOfBounds" THEN Panic
    ELSE IF TokenName(tokens, ctx.position) = expected_token_type
    THEN ParseOk(Advance(ctx), TRUE)
    ELSE ParseError("WrongToken")

Requirement(kind, name, text, amount) ==
    [kind |-> kind, name |-> name, text |-> text, amount |-> amount]
Required(requirement) == [status |-> "ok", value |-> requirement]
NotRequired(kind) == [status |-> kind, value |-> <<>>]

\* The keywords of parse_requirement that take an amount, with the variant built
AmountKeywords == {
    [keyword |-> <<"B", "l", "a", "z", "e">>, kind |-> "EnergySkill", name |-> "Blaze"],
    [keyword |-> <<"B", "o", "s", "s">>, kind |-> "Boss", name |-> ""],
    [keyword |-> <<"B", "o", "w">>, kind |-> "EnergySkill", name |-> "Bow"],
    [keyword |-> <<"B", "r", "e", "a", "k", "W", "a", "l", "l">>, kind |-> "BreakWall", name |-> ""],
    [keyword |-> <<"D", "a", "m", "a", "g", "e">>, kind |-> "Damage", name |-> ""],
    [keyword |-> <<"D", "a", "n", "g", "e", "r">>, kind |-> "Danger", name |-> ""],
    [keyword |-> <<"E", "n", "e", "r", "g", "y">>, kind |-> "Resource", name |-> "Energy"],
    [keyword |-> <<"F", "l", "a", "s", "h">>, kind |-> "EnergySkill", name |-> "Flash"],
    [keyword |-> <<"G", "r", "e", "n", "a", "d", "e">>, kind |-> "EnergySkill", name |-> "Grenade"],
    [keyword |-> <<"H", "e", "a", "l", "t", "h">>, kind |-> "Resource", name |-> "Health"],
    [keyword |-> <<"K", "e", "y", "s", "t", "o", "n", "e">>, kind |-> "Resource", name |-> "Keystone"],
    [keyword |-> <<"O", "r", "e">>, kind |-> "Resource", name |-> "Ore"],
    [keyword |-> <<"S", "e", "n", "t", "r", "y">>, kind |-> "EnergySkill", name |-> "Sentry"],
    [keyword |-> <<"S", "e", "n", "t", "r", "y", "J", "u", "m", "p">>, kind |-> "SentryJump", name |-> ""],
    [keyword |-> <<"S", "h", "a", "r", "d", "S", "l", "o", "t">>, kind |-> "Resource", name |-> "ShardSlot"],
    [keyword |-> <<"S", "h", "u", "r", "i", "k", "e", "n">>, kind |-> "EnergySkill", name |-> "Shuriken"],
    [keyword |-> <<"S", "h", "u", "r", "i", "k", "e", "n", "B", "r", "e", "a", "k">>, kind |-> "ShurikenBreak", name |-> ""],
    [keyword |-> <<"S", "p", "e", "a", "r">>, kind |-> "EnergySkill", name |-> "Spear"],
    [keyword |-> <<"S", "p", "i", "r", "i", "t", "L", "i", "g", "h", "t">>, kind |-> "Resource", name |-> "SpiritLight"]}
\* The keywords of parse_requirement that stand alone
PlainKeywords == {
    [keyword |-> <<"A", "r", "c", "i", "n", "g">>, kind |-> "Shard", name |-> "Arcing"],
    [keyword |-> <<"B", "a", "s", "h">>, kind |-> "Skill", name |-> "Bash"],
    [keyword |-> <<"B", "l", "a", "z", "e">>, kind |-> "Skill", name |-> "Blaze"],
    [keyword |-> <<"B", "o", "w">>, kind |-> "Skill", name |-> "Bow"],
    [keyword |-> <<"B", "u", "r", "r", "o", "w">>, kind |-> "Skill", name |-> "Burrow"],
    [keyword |-> <<"B", "u", "r", "r", "o", "w", "s", "T", "P">>, kind |-> "Teleporter", name |-> "Burrows"],
    [keyword |-> <<"C", "a", "t", "a", "l", "y", "s", "t">>, kind |-> "Shard", name |-> "Catalyst"],
    [keyword |-> <<"D", "a", "s", "h">>, kind |-> "Skill", name |-> "Dash"],
    [keyword |-> <<"D", "e", "f", "l", "e", "c", "t", "o", "r">>, kind |-> "Shard", name |-> "Deflector"],
    [keyword |-> <<"D", "e", "n", "T", "P">>, kind |-> "Teleporter", name |-> "Den"],
    [keyword |-> <<"D", "e", "p", "t", "h", "s", "T", "P">>, kind |-> "Teleporter", name |-> "Depths"],
    [keyword |-> <<"D", "o", "u", "b", "l", "e", "J", "u", "m", "p">>, kind |-> "Skill", name |-> "DoubleJump"],
    [keyword |-> <<"E", "a", "s", "t", "P", "o", "o", "l", "s", "T", "P">>, kind |-> "Teleporter", name |-> "EastLuma"],
    [keyword |-> <<"E", "a", "s", "t", "W", "a", "s", "t", "e", "s", "T", "P">>, kind |-> "Teleporter", name |-> "EastWastes"],
    [keyword |-> <<"E", "a", "s", "t", "W", "o", "o", "d", "s", "T", "P">>, kind |-> "Teleporter", name |-> "EastWoods"],
    [keyword |-> <<"E", "n", "e", "r", "g", "y", "H", "a", "r", "v", "e", "s", "t">>, kind |-> "Shard", name |-> "EnergyHarvest"],
    [keyword |-> <<"F", "l", "a", "p">>, kind |-> "Skill", name |-> "Flap"],
    [keyword |-> <<"F", "l", "a", "s", "h">>, kind |-> "Skill", name |-> "Flash"],
    [keyword |-> <<"F", "r", "a", "c", "t", "u", "r", "e">>, kind |-> "Shard", name |-> "Fracture"],
    [keyword |-> <<"f", "r", "e", "e">>, kind |-> "Free", name |-> ""],
    [keyword |-> <<"G", "l", "a", "d", "e", "s", "T", "P">>, kind |-> "Teleporter", name |-> "Glades"],
    [keyword |-> <<"G", "l", "i", "d", "e">>, kind |-> "Skill", name |-> "Glide"],
    [keyword |-> <<"G", "r", "a", "p", "p", "l", "e">>, kind |-> "Skill", name |-> "Grapple"],
    [keyword |-> <<"G", "r", "e", "n", "a", "d", "e">>, kind |-> "Skill", name |-> "Grenade"],
    [keyword |-> <<"H", "a", "m", "m", "e", "r">>, kind |-> "Skill", name |-> "Hammer"],
    [keyword |-> <<"H", "o", "l", "l", "o", "w", "T", "P">>, kind |-> "Teleporter", name |-> "Hollow"],
    [keyword |-> <<"I", "n", "n", "e", "r", "R", "u", "i", "n", "s", "T", "P">>, kind |-> "Teleporter", name |-> "InnerRuins"],
    [keyword |-> <<"L", "a", "u", "n", "c", "h">>, kind |-> "Skill", name |-> "Launch"],
    [keyword |-> <<"L", "i", "f", "e", "H", "a", "r", "v", "e", "s", "t">>, kind |-> "Shard", name |-> "LifeHarvest"],
    [keyword |-> <<"M", "a", "g", "n", "e", "t">>, kind |-> "Shard", name |-> "Magnet"],
    [keyword |-> <<"M", "a", "r", "s", "h", "T", "P">>, kind |-> "Teleporter", name |-> "Marsh"],
    [keyword |-> <<"O", "u", "t", "e", "r", "R", "u", "i", "n", "s", "T", "P">>, kind |-> "Teleporter", name |-> "OuterRuins"],
    [keyword |-> <<"O", "v", "e", "r", "f", "l", "o", "w">>, kind |-> "Shard", name |-> "Overflow"],
    [keyword |-> <<"R", "e", "a", "c", "h", "T", "P">>, kind |-> "Teleporter", name |-> "Reach"],
    [keyword |-> <<"R", "e", "g", "e", "n", "e", "r", "a", "t", "e">>, kind |-> "Skill", name |-> "Regenerate"],
    [keyword |-> <<"S", "e", "i", "r">>, kind |-> "Skill", name |-> "Seir"],
    [keyword |-> <<"S", "e", "n", "t", "r", "y">>, kind |-> "Skill", name |-> "Sentry"],
    [keyword |-> <<"S", "h", "r", "i", "e", "k", "T", "P">>, kind |-> "Teleporter", name |-> "Shriek"],
    [keyword |-> <<"S", "h", "u", "r", "i", "k", "e", "n">>, kind |-> "Skill", name |-> "Shuriken"],
    [keyword |-> <<"S", "p", "e", "a", "r">>, kind |-> "Skill", name |-> "Spear"],
    [keyword |-> <<"S", "t", "i", "c", "k", "y">>, kind |-> "Shard", name |-> "Sticky"],
    [keyword |-> <<"S", "w", "o", "r", "d">>, kind |-> "Skill", name |-> "Sword"],
    [keyword |-> <<"T", "r", "i", "p", "l", "e", "J", "u", "m", "p">>, kind |-> "Shard", name |-> "TripleJump"],
    [keyword |-> <<"T", "h", "o", "r", "n">>, kind |-> "Shard", name |-> "Thorn"],
    [keyword |-> <<"U", "l", "t", "r", "a", "B", "a", "s", "h">>, kind |-> "Shard", name |-> "UltraBash"],
    [keyword |-> <<"U", "l", "t", "r", "a", "G", "r", "a", "p", "p", "l", "e">>, kind |-> "Shard", name |-> "UltraGrapple"],
    [keyword |-> <<"W", "a", "l", "l", "J", "u", "m", "p">>, kind |-> "Skill", name |-> "WallJump"],
    [keyword |-> <<"W", "a", "t", "e", "r", "B", "r", "e", "a", "t", "h">>, kind |-> "Skill", name |-> "WaterBreath"],
    [keyword |-> <<"W", "a", "t", "e", "r", "D", "a", "s", "h">>, kind |-> "Skill", name |-> "WaterDash"],
    [keyword |-> <<"W", "a", "t", "e", "r">>, kind |-> "Skill", name |-> "Water"],
    [keyword |-> <<"W", "e", "l", "l", "s", "p", "r", "i", "n", "g", "T", "P">>, kind |-> "Teleporter", name |-> "Wellspring"],
    [keyword |-> <<"W", "e", "s", "t", "P", "o", "o", "l", "s", "T", "P">>, kind |-> "Teleporter", name |-> "WestLuma"],
    [keyword |-> <<"W", "e", "s", "t", "W", "a", "s", "t", "e", "s", "T", "P">>, kind |-> "Teleporter", name |-> "WestWastes"],
    [keyword |-> <<"W", "e", "s", "t", "W", "o", "o", "d", "s", "T", "P">>, kind |-> "Teleporter", name |-> "WestWoods"],
    [keyword |-> <<"W", "i", "l", "l", "o", "w", "T", "P">>, kind |-> "Teleporter", name |-> "Willow"]}
\* The keywords whose arm without an amount is the error WrongAmount
NeedAmount == {
    <<"B", "o", "s", "s">>,
    <<"B", "r", "e", "a", "k", "W", "a", "l", "l">>,
    <<"D", "a", "m", "a", "g", "e">>,
    <<"D", "a", "n", "g", "e", "r">>,
    <<"E", "n", "e", "r", "g", "y">>,
    <<"H", "e", "a", "l", "t", "h">>,
    <<"K", "e", "y", "s", "t", "o", "n", "e">>,
    <<"O", "r", "e">>,
    <<"S", "e", "n", "t", "r", "y", "J", "u", "m", "p">>,
    <<"S", "h", "a", "r", "d", "S", "l", "o", "t">>,
    <<"S", "h", "u", "r", "i", "k", "e", "n", "B", "r", "e", "a", "k">>,
    <<"S", "p", "i", "r", "i", "t", "L", "i", "g", "h", "t">>}
S_Combat == <<"C", "o", "m", "b", "a", "t">>
Row(table, keyword) == CHOOSE row \in table : row.keyword = keyword
Listed(table, keyword) == \E row \in table : row.keyword = keyword

\* The arms of an amount (parser.rs:113-143)
parse_requirement_counted(keyword, amount) ==
    IF ~amount.ok THEN NotRequired("ParseInt")
    ELSE IF Listed(AmountKeywords, keyword)
    THEN Required(Requirement(Row(AmountKeywords, keyword).kind,
                              Row(AmountKeywords, keyword).name, <<>>, amount.val))
    ELSE NotRequired("WrongRequirement")
parse_requirement_amount(keyword, amount) ==
    IF keyword = S_Combat THEN Required(Requirement("Combat", "", amount, 0))
    ELSE parse_requirement_counted(keyword, ParseUnsigned(amount, U16Max))

\* The arms behind the guards (parser.rs:205-217)
parse_requirement_undeclared(keyword) ==
    IF keyword \in NeedAmount THEN NotRequired("WrongAmount")
    ELSE NotRequired("WrongRequirement")
\* The guards reading the states before the pathsets
parse_requirement_states_first(keyword, ctx) ==
    IF keyword \in ctx.definitions THEN Required(Requirement("Definition", "", keyword, 0))
    ELSE IF keyword \in ctx.states THEN Required(Requirement("State", "", keyword, 0))
    ELSE IF keyword \in ctx.pathsets THEN Required(Requirement("Pathset", "", keyword, 0))
    ELSE IF keyword \in ctx.quests THEN Required(Requirement("Quest", "", keyword, 0))
    ELSE parse_requirement_undeclared(keyword)
\* The four guards (parser.rs:201-204)
parse_requirement_declared(keyword, ctx) ==
    IF keyword \in ctx.definitions THEN Required(Requirement("Definition", "", keyword, 0))
    ELSE IF keyword \in ctx.pathsets THEN Required(Requirement("Pathset", "", keyword, 0))
    ELSE IF keyword \in ctx.states THEN Required(Requirement("State", "", keyword, 0))
    ELSE IF keyword \in ctx.quests THEN Required(Requirement("Quest", "", keyword, 0))
    ELSE parse_requirement_undeclared(keyword)
\* The arms without an amount (parser.rs:145-218)
parse_requirement_plain(keyword, ctx) ==
    IF Listed(PlainKeywords, keyword)
    THEN Required(Requirement(Row(PlainKeywords, keyword).kind,
                              Row(PlainKeywords, keyword).name, <<>>, 0))
    ELSE parse_requirement_declared(keyword, ctx)
parse_requirement_parts(parts, ctx) ==
    IF Len(parts) > 2 THEN NotRequired("WrongAmount")
    ELSE IF Len(parts) = 2 THEN parse_requirement_amount(parts[1], parts[2])
    ELSE parse_requirement_plain(parts[1], ctx)
parse_requirement(token, ctx) == parse_requirement_parts(Split(token.value, <<"=">>), ctx)

\* parse_free: the token behind an inline free ends the line
parse_free_at(tokens, ctx) ==
    IF TokenName(tokens, ctx.position) = "OutOfBounds" THEN Panic
    ELSE IF TokenName(tokens, ctx.position) = "Newline" THEN ParseOk(Advance(ctx), <<>>)
    ELSE IF TokenName(tokens, ctx.position) = "Dedent" THEN ParseOk(ctx, <<>>)
    ELSE ParseError("WrongToken")
parse_free(tokens, ctx) == parse_free_at(tokens, Advance(ctx))

Line(ands, ors, group) == [ands |-> ands, ors |-> ors, group |-> group]
Group(lines) == [some |-> TRUE, lines |-> lines]
NoGroup == [some |-> FALSE, lines |-> <<>>]

RECURSIVE parse_line_loop(_, _, _, _), parse_group_loop(_, _, _)
\* A requirement in front of And or Or
parse_line_joined(tokens, ctx, ands, ors, requirement, separator) ==
    IF requirement.status # "ok" THEN ParseError(requirement.status)
    ELSE IF separator = "And"
    THEN parse_line_loop(tokens, ctx, Append(ands, requirement.value), ors)
    ELSE parse_line_loop(tokens, ctx, ands, Append(ors, requirement.value))
\* A requirement in front of Newline or Dedent
parse_line_last(ctx, ands, ors, requirement) ==
    IF requirement.status # "ok" THEN ParseError(requirement.status)
    ELSE IF ors = <<>>
    THEN ParseOk(ctx, Line(Append(ands, requirement.value), ors, NoGroup))
    ELSE ParseOk(ctx, Line(ands, Append(ors, requirement.value), NoGroup))
parse_line_grouped(ands, ors, group) ==
    IF group.status # "ok" THEN ParseError(group.status)
    ELSE ParseOk(group.ctx, Line(ands, ors, group.value))
\* A requirement in front of Group
parse_line_group(tokens, ctx, ands, ors, requirement) ==
    IF requirement.status # "ok" THEN ParseError(requirement.status)
    ELSE IF TokenName(tokens, ctx.position) = "OutOfBounds" THEN Panic
    ELSE IF TokenName(tokens, ctx.position) = "Indent"
    THEN parse_line_grouped(Append(ands, requirement.value), ors,
                            parse_group_loop(tokens, Advance(ctx), <<>>))
    ELSE parse_line_loop(tokens, ctx, Append(ands, requirement.value), ors)
parse_line_requirement(tokens, token, ctx, ands, ors, separator) ==
    IF separator = "OutOfBounds" THEN Panic
    ELSE IF separator \in {"And", "Or"}
    THEN parse_line_joined(tokens, Advance(ctx), ands, ors,
                           parse_requirement(token, ctx), separator)
    ELSE IF separator = "Newline"
    THEN parse_line_last(Advance(ctx), ands, ors, parse_requirement(token, ctx))
    ELSE IF separator = "Dedent"
    THEN parse_line_last(ctx, ands, ors, parse_requirement(token, ctx))
    ELSE IF separator = "Group"
    THEN parse_line_group(tokens, Advance(ctx), ands, ors, parse_requirement(token, ctx))
    ELSE ParseError("WrongToken")
parse_line_free(ands, ors, free) ==
    IF free.status # "ok" THEN ParseError(free.status)
    ELSE ParseOk(free.ctx, Line(ands, ors, NoGroup))
parse_line_loop(tokens, ctx, ands, ors) ==
    IF TokenName(tokens, ctx.position) = "OutOfBounds" THEN Panic
    ELSE IF TokenName(tokens, ctx.position) = "Requirement"
    THEN parse_line_requirement(tokens, TokenAt(tokens, ctx.position), Advance(ctx), ands, ors,
                                TokenName(tokens, ctx.position + 1))
    ELSE IF TokenName(tokens, ctx.position) = "Free"
    THEN parse_line_free(ands, ors, parse_free(tokens, ctx))
    ELSE ParseError("WrongToken")
parse_line(tokens, ctx) == parse_line_loop(tokens, ctx, <<>>, <<>>)

parse_group_line(tokens, lines, line) ==
    IF line.status # "ok" THEN ParseError(line.status)
    ELSE parse_group_loop(tokens, line.ctx, Append(lines, line.value))
parse_group_loop(tokens, ctx, lines) ==
    IF TokenName(tokens, ctx.position) = "OutOfBounds" THEN Panic
    ELSE IF TokenName(tokens, ctx.position) = "Requirement"
    THEN parse_group_line(tokens, lines, parse_line(tokens, ctx))
    ELSE IF TokenName(tokens, ctx.position) = "Dedent"
    THEN ParseOk(Advance(ctx), Group(lines))
    ELSE ParseError("WrongToken")
parse_group(tokens, ctx) == parse_group_loop(tokens, ctx, <<>>)

Pathset(identifier, description) == [identifier |-> identifier, description |-> description]
RECURSIVE parse_pathset_entries(_, _, _, _)
parse_pathset_entries(tokens, ctx, identifier, description) ==
    IF TokenName(tokens, ctx.position) = "OutOfBounds" THEN Panic
    ELSE IF TokenName(tokens, ctx.position) = "Requirement"
    THEN parse_pathset_entries(tokens, Advance(ctx), identifier,
             IF description = <<>> THEN TokenAt(tokens, ctx.position).value
             ELSE description \o NL \o TokenAt(tokens, ctx.position).value)
    ELSE IF TokenName(tokens, ctx.position) = "Dedent"
    THEN ParseOk(Advance(ctx), Pathset(identifier, description))
    ELSE ParseError("WrongToken")
parse_pathset_indent(tokens, identifier, indent) ==
    IF indent.status # "ok" THEN ParseError(indent.status)
    ELSE parse_pathset_entries(tokens, indent.ctx, identifier, <<>>)
parse_pathset_test(tokens, ctx, identifier, test) ==
    IF test = "OutOfBounds" THEN Panic
    ELSE IF test = "Group"
    THEN parse_pathset_indent(tokens, identifier, eat(tokens, Advance(ctx), "Indent"))
    ELSE IF test = "Newline" THEN ParseOk(Advance(ctx), Pathset(identifier, <<>>))
    ELSE ParseOk(ctx, Pathset(identifier, <<>>))
parse_pathset(tokens, ctx) ==
    parse_pathset_test(tokens, Advance(ctx), TokenAt(tokens, ctx.position).value,
                       TokenName(tokens, ctx.position + 1))

Pathsets(identifier, pathsets) == [identifier |-> identifier, pathsets |-> pathsets]
RECURSIVE parse_pathsets_loop(_, _, _, _)
parse_pathsets_end(tokens, ctx, identifier, pathsets) ==
    IF pathsets # <<>> THEN ParseOk(ctx, Pathsets(identifier, pathsets))
    ELSE IF TokenName(tokens, ctx.position) = "OutOfBounds" THEN Panic
    ELSE ParseError("WrongToken")
parse_pathsets_entry(tokens, identifier, pathsets, pathset) ==
    IF pathset.status # "ok" THEN ParseError(pathset.status)
    ELSE parse_pathsets_loop(tokens, pathset.ctx, identifier, Append(pathsets, pathset.value))
parse_pathsets_loop(tokens, ctx, identifier, pathsets) ==
    IF TokenName(tokens, ctx.position) = "OutOfBounds" THEN Panic
    ELSE IF TokenName(tokens, ctx.position) = "Requirement"
    THEN parse_pathsets_entry(tokens, identifier, pathsets, parse_pathset(tokens, ctx))
    ELSE IF TokenName(tokens, ctx.position) = "Dedent"
    THEN parse_pathsets_end(tokens, Advance(ctx), identifier, pathsets)
    ELSE ParseError("WrongToken")
parse_pathsets_indent(tokens, identifier, indent) ==
    IF indent.status # "ok" THEN ParseError(indent.status)
    ELSE parse_pathsets_loop(tokens, indent.ctx, identifier, <<>>)
parse_pathsets(tokens, ctx) ==
    parse_pathsets_indent(tokens, TokenAt(tokens, ctx.position).value,
                          eat(tokens, Advance(ctx), "Indent"))

NamedGroup(identifier, requirements) == [identifier |-> identifier, requirements |-> requirements]
parse_named_group_body(identifier, requirements) ==
    IF requirements.status # "ok" THEN ParseError(requirements.status)
    ELSE ParseOk(requirements.ctx, NamedGroup(identifier, requirements.value))
parse_named_group_at(tokens, ctx, identifier) ==
    IF TokenName(tokens, ctx.position) = "OutOfBounds" THEN Panic
    ELSE IF TokenName(tokens, ctx.position) = "Indent"
    THEN parse_named_group_body(identifier, parse_group(tokens, Advance(ctx)))
    ELSE ParseError("WrongToken")
parse_named_group(tokens, ctx) ==
    parse_named_group_at(tokens, Advance(ctx), TokenAt(tokens, ctx.position).value)
parse_region(tokens, ctx) == parse_named_group(tokens, ctx)
parse_definition(tokens, ctx) == parse_named_group(tokens, ctx)

S_Checkpoint == <<"C", "h", "e", "c", "k", "p", "o", "i", "n", "t">>
S_Full == <<"F", "u", "l", "l">>
S_Health == <<"H", "e", "a", "l", "t", "h">>
S_Health_eq == <<"H", "e", "a", "l", "t", "h", "=">>
S_Energy_eq == <<"E", "n", "e", "r", "g", "y", "=">>
RefillType(kind, amount) == [kind |-> kind, amount |-> amount]
Refill(name, requirements) == [name |-> name, requirements |-> requirements]
parse_refill_amount(ctx, kind, amount, requirements) ==
    IF ~amount.ok THEN ParseError("ParseInt")
    ELSE ParseOk(ctx, Refill(RefillType(kind, amount.val), requirements))
parse_refill_name(tokens, ctx, identifier, requirements) ==
    IF identifier = S_Checkpoint THEN ParseOk(ctx, Refill(RefillType("Checkpoint", 0), requirements))
    ELSE IF identifier = S_Full THEN ParseOk(ctx, Refill(RefillType("Full", 0), requirements))
    ELSE IF StartsWith(identifier, S_Health_eq)
    THEN parse_refill_amount(ctx, "Health",
             ParseUnsigned(Drop(identifier, Len(S_Health_eq)), U16Max), requirements)
    ELSE IF identifier = S_Health THEN ParseOk(ctx, Refill(RefillType("Health", 1), requirements))
    ELSE IF StartsWith(identifier, S_Energy_eq)
    THEN parse_refill_amount(ctx, "Energy",
             ParseUnsigned(Drop(identifier, Len(S_Energy_eq)), U16Max), requirements)
    ELSE IF TokenName(tokens, ctx.position) = "OutOfBounds" THEN Panic
    ELSE ParseError("WrongToken")
parse_refill_body(tokens, identifier, body) ==
    IF body.status # "ok" THEN ParseError(body.status)
    ELSE parse_refill_name(tokens, body.ctx, identifier, body.value)
parse_refill_at(tokens, ctx, identifier) ==
    IF TokenName(tokens, ctx.position) = "OutOfBounds" THEN Panic
    ELSE IF TokenName(tokens, ctx.position) = "Newline"
    THEN parse_refill_name(tokens, Advance(ctx), identifier, NoGroup)
    ELSE IF TokenName(tokens, ctx.position) = "Free"
    THEN parse_refill_body(tokens, identifier,
             [parse_free(tokens, ctx) EXCEPT !.value = NoGroup])
    ELSE IF TokenName(tokens, ctx.position) = "Indent"
    THEN parse_refill_body(tokens, identifier, parse_group(tokens, Advance(ctx)))
    ELSE ParseError("WrongToken")
parse_refill(tokens, ctx) ==
    parse_refill_at(tokens, Advance(ctx), TokenAt(tokens, ctx.position).value)

Connection(name, identifier, requirements) ==
    [name |-> name, identifier |-> identifier, requirements |-> requirements]
parse_connection_body(name, identifier, body) ==
    IF body.status # "ok" THEN ParseError(body.status)
    ELSE ParseOk(body.ctx, Connection(name, identifier, body.value))
parse_connection_at(tokens, ctx, name, identifier) ==
    IF TokenName(tokens, ctx.position) = "OutOfBounds" THEN Panic
    ELSE IF TokenName(tokens, ctx.position) = "Indent"
    THEN parse_connection_body(name, identifier, parse_group(tokens, Advance(ctx)))
    ELSE IF TokenName(tokens, ctx.position) = "Free"
    THEN parse_connection_body(name, identifier,
             [parse_free(tokens, ctx) EXCEPT !.value = NoGroup])
    ELSE ParseError("WrongToken")
parse_connection(tokens, ctx, name) ==
    parse_connection_at(tokens, Advance(ctx), name, TokenAt(tokens, ctx.position).value)

ParseI16(s) == ParseSigned(s, I16Min, I16Max)

Anchor(identifier, position, refills, connections) ==
    [identifier |-> identifier, position |-> position, refills |-> refills,
     connections |-> connections]
ConnectionTokens == {"State", "Quest", "Pickup", "Connection"}
ConnectionType(name) == IF name = "Connection" THEN "Anchor" ELSE name
RECURSIVE parse_anchor_loop(_, _, _, _)
parse_anchor_refill(tokens, anchor, refill) ==
    IF refill.status # "ok" THEN ParseError(refill.status)
    ELSE parse_anchor_loop(tokens, refill.ctx, anchor,
                           [anchor EXCEPT !.refills = Append(@, refill.value)])
parse_anchor_connection(tokens, anchor, connection) ==
    IF connection.status # "ok" THEN ParseError(connection.status)
    ELSE parse_anchor_loop(tokens, connection.ctx, anchor,
                           [anchor EXCEPT !.connections = Append(@, connection.value)])
parse_anchor_loop(tokens, ctx, before, anchor) ==
    IF TokenName(tokens, ctx.position) = "OutOfBounds" THEN Panic
    ELSE IF TokenName(tokens, ctx.position) = "Refill"
    THEN parse_anchor_refill(tokens, anchor, parse_refill(tokens, ctx))
    ELSE IF TokenName(tokens, ctx.position) \in ConnectionTokens
    THEN parse_anchor_connection(tokens, anchor,
             parse_connection(tokens, ctx, ConnectionType(TokenName(tokens, ctx.position))))
    ELSE IF TokenName(tokens, ctx.position) = "Dedent" THEN ParseOk(Advance(ctx), anchor)
    ELSE ParseError("WrongToken")
parse_anchor_body(tokens, ctx, identifier, position) ==
    IF TokenName(tokens, ctx.position) = "OutOfBounds" THEN Panic
    ELSE IF TokenName(tokens, ctx.position) = "Indent"
    THEN parse_anchor_loop(tokens, Advance(ctx), <<>>, Anchor(identifier, position, <<>>, <<>>))
    ELSE ParseError("WrongToken")
parse_anchor_coords(tokens, ctx, identifier, coords) ==
    IF ~ParseI16(coords[1]).ok THEN ParseError("ParseInt")
    ELSE IF Len(coords) < 2 THEN Panic
    ELSE IF ~ParseI16(coords[2]).ok THEN ParseError("ParseInt")
    ELSE parse_anchor_body(tokens, Advance(ctx), identifier,
                           <<ParseI16(coords[1]).val, ParseI16(coords[2]).val>>)
parse_anchor_at(tokens, ctx, identifier) ==
    IF TokenName(tokens, ctx.position) = "OutOfBounds" THEN Panic
    ELSE IF TokenName(tokens, ctx.position) = "Position"
    THEN parse_anchor_coords(tokens, ctx, identifier,
                             Split(TokenAt(tokens, ctx.position).value, <<",">>))
    ELSE parse_anchor_body(tokens, ctx, identifier, <<>>)
parse_anchor(tokens, ctx) ==
    parse_anchor_at(tokens, Advance(ctx), TokenAt(tokens, ctx.position).value)

RECURSIVE preprocess_loop(_, _)
PathsetNames(pathsets) == {pathsets[i].identifier : i \in 1..Len(pathsets)}
preprocess_pathsets(tokens, pathsets) ==
    IF pathsets.status # "ok" THEN ParseError(pathsets.status)
    ELSE preprocess_loop(tokens,
             Advance(Retreat([pathsets.ctx EXCEPT
                 !.pathsets = @ \cup PathsetNames(pathsets.value.pathsets)])))
preprocess_loop(tokens, ctx) ==
    IF ctx.position >= Len(tokens) THEN ParseOk(ctx, TRUE)
    ELSE IF TokenName(tokens, ctx.position) = "Definition"
    THEN preprocess_loop(tokens, Advance([ctx EXCEPT
             !.definitions = @ \cup {TokenAt(tokens, ctx.position).value}]))
    ELSE IF TokenName(tokens, ctx.position) = "Pathsets"
    THEN preprocess_pathsets(tokens, parse_pathsets(tokens, ctx))
    ELSE IF TokenName(tokens, ctx.position) = "Quest"
    THEN preprocess_loop(tokens, Advance([ctx EXCEPT
             !.quests = @ \cup {TokenAt(tokens, ctx.position).value}]))
    ELSE IF TokenName(tokens, ctx.position) = "State"
    THEN preprocess_loop(tokens, Advance([ctx EXCEPT
             !.states = @ \cup {TokenAt(tokens, ctx.position).value}]))
    ELSE preprocess_loop(tokens, Advance(ctx))
preprocess(tokens, ctx) == preprocess_loop(tokens, ctx)

Areas(definitions, regions, anchors) ==
    [definitions |-> definitions, regions |-> regions, anchors |-> anchors]
RECURSIVE process_loop(_, _, _)
process_parsed(tokens, areas, kind, parsed) ==
    IF parsed.status # "ok" THEN ParseError(parsed.status)
    ELSE process_loop(tokens, parsed.ctx,
             IF kind = "Definition" THEN [areas EXCEPT !.definitions = Append(@, parsed.value)]
             ELSE IF kind = "Region" THEN [areas EXCEPT !.regions = Append(@, parsed.value)]
             ELSE IF kind = "Anchor" THEN [areas EXCEPT !.anchors = Append(@, parsed.value)]
             ELSE areas)
process_loop(tokens, ctx, areas) ==
    IF ctx.position >= Len(tokens) THEN ParseOk(ctx, areas)
    ELSE IF TokenName(tokens, ctx.position) = "Pathsets"
    THEN process_parsed(tokens, areas, "Pathsets", parse_pathsets(tokens, ctx))
    ELSE IF TokenName(tokens, ctx.position) = "Definition"
    THEN process_parsed(tokens, areas, "Definition", parse_definition(tokens, ctx))
    ELSE IF TokenName(tokens, ctx.position) = "Region"
    THEN process_parsed(tokens, areas, "Region", parse_region(tokens, ctx))
    ELSE IF TokenName(tokens, ctx.position) = "Anchor"
    THEN process_parsed(tokens, areas, "Anchor", parse_anchor(tokens, ctx))
    ELSE ParseError("WrongToken")
process(tokens, ctx) ==
    IF TokenName(tokens, ctx.position) = "OutOfBounds" THEN Panic
    ELSE IF TokenName(tokens, ctx.position) = "Newline"
    THEN process_loop(tokens, Advance(ctx), Areas(<<>>, <<>>, <<>>))
    ELSE process_loop(tokens, ctx, Areas(<<>>, <<>>, <<>>))

parse_areas_processed(tokens, preprocessed) ==
    IF preprocessed.status # "ok" THEN ParseError(preprocessed.status)
    ELSE process(tokens, [preprocessed.ctx EXCEPT !.position = 0])
parse_areas(tokens) ==
    parse_areas_processed(tokens, preprocess(tokens, ParseContext(0, {}, {}, {}, {})))
(***************************************************************************)
(* Conditionals: headers over !!parameter, !!if, !!endif and plain lines   *)
(***************************************************************************)
L_paramA1 == <<"!", "!", "p", "a", "r", "a", "m", "e", "t", "e", "r", " ", "A", " ", "1">>
L_paramA2 == <<"!", "!", "p", "a", "r", "a", "m", "e", "t", "e", "r", " ", "A", " ", "i", "n", "t", ":", "2">>
L_ifA1 == <<"!", "!", "i", "f", " ", "A", " ", "1">>
L_ifA2 == <<"!", "!", "i", "f", " ", "A", " ", "2">>
L_ifB1 == <<"!", "!", "i", "f", " ", "B", " ", "1">>
L_endif == <<"!", "!", "e", "n", "d", "i", "f">>
L_pickup == <<"3", "|", "0", "|", "0", "|", "5", "0", "0", "0">>
L_verbatim == <<"!", "x">>
CondLines == {L_paramA1, L_paramA2, L_ifA1, L_ifA2, L_ifB1, L_endif, L_pickup, L_verbatim}

InitCond == InitHeader(MaxCondLines)
CondLine == \E line \in CondLines : HeaderLine(line, <<>>)
NextCond == CondLine \/ HeaderEnd
SpecCond == InitCond /\ [][NextCond]_vars

\* What the header <<declaration, !!if, line, !!endif>> is expected to leave
DeclaredA(declaration) ==
    IF S_A \in DOMAIN param_values THEN param_values[S_A]
    ELSE IF declaration = L_paramA1 THEN <<"1">> ELSE <<"2">>
ComparedA(test) == IF test = L_ifA1 THEN <<"1">> ELSE <<"2">>
SpiritLight5000At3_0 ==
    [group |-> 3, id |-> 0, value |-> <<>>, item |-> [kind |-> "SpiritLight", n |-> 5000]]
LineDone(line) ==
    IF line = L_pickup
        THEN /\ run.processed = L_pickup \o NL \o NL
             /\ world.preplaced = <<SpiritLight5000At3_0>>
             /\ context.negative_inventory = ([kind |-> "SpiritLight", n |-> 1] :> 1)
    ELSE run.processed = <<"x">> \o NL \o NL /\ world = NewWorld /\ context = NewContext
LineNotDone == run.processed = NL /\ world = NewWorld /\ context = NewContext

\* C1: for the header <<!!parameter A ..., !!if A v, lineX, !!endif>> the pass
\* succeeds, and lineX's output and its effect on the world are there if and
\* only if the value of parameter A equals v as a string
C1_IfEmitsIffEqual ==
    \A declaration \in {L_paramA1, L_paramA2}, test \in {L_ifA1, L_ifA2},
       line \in {L_pickup, L_verbatim} :
        header = <<declaration, test, line, L_endif>> =>
            /\ result \in {"running", "ok"}
            /\ run.depth = 0 /\ run.skip_until = -1
            /\ result = "ok" =>
                IF DeclaredA(declaration) = ComparedA(test) THEN LineDone(line) ELSE LineNotDone
C1_Witness ==
    /\ result = "ok"
    /\ header = <<L_paramA1, L_ifA2, L_pickup, L_endif>>
    /\ param_values = (S_A :> <<"2">>)
    /\ LineDone(L_pickup)
C1_WitnessSkipped ==
    /\ result = "ok"
    /\ header = <<L_paramA2, L_ifA1, L_verbatim, L_endif>>
    /\ param_values = EmptyMap
    /\ LineNotDone

IsIf(line) == line \in {L_ifA1, L_ifA2, L_ifB1}
RECURSIVE IfNesting(_)
\* The !!if lines of a header that no !!endif has closed yet
IfNesting(lines) ==
    IF lines = <<>> THEN 0
    ELSE IfNesting(Tail(lines))
            + (IF IsIf(Head(lines)) THEN 1 ELSE IF Head(lines) = L_endif THEN -1 ELSE 0)

\* C2: a line read in skip mode raises no error, even an !!if on an unknown
\* parameter, and leaves the output, the parameters, the world and the
\* context as they are; skip mode begins at an !!if, and ends exactly at the
\* line that brings the nesting of !!if/!!endif back to what it was there
C2_SkipMode ==
    [][ /\ (result = "running" /\ run.skip_until > -1 /\ header' # header) =>
            /\ result' = "running"
            /\ run'.processed = run.processed
            /\ run'.parameters = run.parameters
            /\ world' = world
            /\ context' = context
            /\ run'.skip_until \in {-1, run.skip_until}
            /\ (run'.skip_until = -1) <=> (IfNesting(header') = run.skip_until)
            /\ (run'.skip_until = -1) => (header'[Len(header')] = L_endif)
        /\ (result = "running" /\ run.skip_until = -1 /\ run'.skip_until > -1) =>
            /\ IsIf(header'[Len(header')])
            /\ run'.skip_until = IfNesting(header)
      ]_vars
C2_Witness ==
    /\ header = <<L_paramA1, L_ifA2, L_ifB1, L_endif, L_endif>>
    /\ param_values = EmptyMap
    /\ result = "running"
    /\ run.skip_until = -1
    /\ run.processed = <<>>
C2_WitnessInside ==
    /\ header = <<L_paramA1, L_ifA2, L_ifB1, L_pickup, L_endif>>
    /\ result = "running"
    /\ run.skip_until = 0
    /\ world = NewWorld

(***************************************************************************)
(* Deep nesting: !!parameter A 1 followed by !!if A 1 lines                *)
(***************************************************************************)
InitDeep == InitHeader(MaxDeepLines)
DeepLine == HeaderLine(IF header = <<>> THEN L_paramA1 ELSE L_ifA1, <<>>)
NextDeep == DeepLine \/ HeaderEnd
SpecDeep == InitDeep /\ [][NextDeep]_vars

\* C3: in every reachable state of parse_header depth >= 0, and skip_until
\* is -1 or 0 <= skip_until < depth
C3_DepthInvariant ==
    /\ run.depth >= 0
    /\ run.skip_until = -1 \/ (0 <= run.skip_until /\ run.skip_until < run.depth)
\* The first half of C3: an !!endif with no open !!if is an error
EndifWithoutIf ==
    [][(result = "running" /\ run.depth = 0 /\ run.skip_until = -1
            /\ header' = Append(header, L_endif)) => result' = "err"]_vars

(***************************************************************************)
(* Take expansion: apply_take_commands on one line, one pool, one script   *)
(* of gen_range results                                                    *)
(***************************************************************************)
T_A == <<"A">>
T_B == <<"B">>
T_C == <<"C">>
TakeEntries == {T_A, T_B, T_C}
L_take2 == <<"o", "u", "t", ":", " ", "!", "!", "t", "a", "k", "e", " ", "/", " ", "!", "!", "t", "a", "k", "e">>
L_take1 == <<"!", "!", "t", "a", "k", "e">>
L_take_mid == <<"a", "!", "!", "t", "a", "k", "e", "b">>
L_take0 == <<"p", "l", "a", "i", "n">>
L_take3 == <<"!", "!", "t", "a", "k", "e", "!", "!", "t", "a", "k", "e", "!", "!", "t", "a", "k", "e">>
TakeLines == {L_take2, L_take1, L_take_mid, L_take0, L_take3}
TakePools == UNION {[1..n -> TakeEntries] : n \in 0..MaxTakePool}
TakeScripts == UNION {[1..n -> 0..(MaxTakePool - 1)] : n \in 0..MaxTakes}

InitTake ==
    /\ InitState(0)
    /\ call = NoCall
    /\ param_values = EmptyMap
    /\ ~overflow_checks
    /\ \E line \in TakeLines, pool \in TakePools :
        tk = [NoTake EXCEPT !.phase = "ready", !.line = line, !.pool = pool]
TakeExpanded(taken, ds) ==
    /\ taken.status # "invalid"
    /\ taken.rest = <<>>
    /\ tk' = [tk EXCEPT !.phase = "done", !.draws = ds, !.status = taken.status,
                        !.out = taken.line, !.left = taken.pool]
    /\ UNCHANGED <<result, run, world, context, header, rng, last, param_values,
                   overflow_checks, fuel, call>>
TakeExpand ==
    /\ tk.phase = "ready"
    /\ \E ds \in TakeScripts : TakeExpanded(apply_take_commands(tk.line, tk.pool, ds), ds)
NextTake == TakeExpand
SpecTake == InitTake /\ [][NextTake]_vars

\* The text around the !!take tokens of each line
TakeSegments(line) ==
    CASE line = L_take2 -> << <<"o", "u", "t", ":", " ">>, <<" ", "/", " ">>, <<>> >>
      [] line = L_take1 -> << <<>>, <<>> >>
      [] line = L_take_mid -> << <<"a">>, <<"b">> >>
      [] line = L_take0 -> << <<"p", "l", "a", "i", "n">> >>
      [] line = L_take3 -> << <<>>, <<>>, <<>>, <<>> >>
Without(seq, i) == [j \in 1..(Len(seq) - 1) |-> IF j < i THEN seq[j] ELSE seq[j + 1]]
RECURSIVE TakeExpected(_, _, _)
\* Left to right, each !!take becomes the entry at the drawn index of the
\* pool as it then is, and that entry leaves the pool
TakeExpected(segments, pool, draws) ==
    IF Len(segments) = 1 THEN [out |-> segments[1], left |-> pool]
    ELSE [out |-> segments[1] \o pool[draws[1] + 1]
                    \o TakeExpected(Tail(segments), Without(pool, draws[1] + 1), Tail(draws)).out,
          left |-> TakeExpected(Tail(segments), Without(pool, draws[1] + 1), Tail(draws)).left]
C4_General ==
    tk.phase = "done" =>
        /\ tk.status = "ok" <=> Len(tk.pool) >= Len(TakeSegments(tk.line)) - 1
        /\ tk.status = "ok" =>
            /\ Len(tk.draws) = Len(TakeSegments(tk.line)) - 1
            /\ tk.out = TakeExpected(TakeSegments(tk.line), tk.pool, tk.draws).out
            /\ tk.left = TakeExpected(TakeSegments(tk.line), tk.pool, tk.draws).left
C4_Example ==
    /\ tk.phase = "done"
    /\ tk.line = L_take2
    /\ tk.pool = <<T_A, T_B, T_C>>
    /\ tk.draws = <<1, 0>>

\* C4 as stated: with pool [A, B, C] and draws 1 then 0, the line
\* "out: !!take / !!take" becomes "out: BA" and the pool is left empty; and
\* each !!take is replaced, left to right, by the entry at the drawn index of
\* the current pool, which is removed
C4_TakeAsStated ==
    /\ C4_Example => (tk.status = "ok" /\ tk.out = <<"o", "u", "t", ":", " ", "B", "A">> /\ tk.left = <<>>)
    /\ C4_General
\* C4 amended: with pool [A, B, C] and draws 1 then 0, the line
\* "out: !!take / !!take" becomes "out: B / A" and the pool is left as [C];
\* and each !!take is replaced, left to right, by the entry at the drawn
\* index of the current pool, which is removed
C4_TakeAmended ==
    /\ C4_Example => (tk.status = "ok" /\ tk.out = <<"o", "u", "t", ":", " ", "B", " ", "/", " ", "A">> /\ tk.left = <<T_C>>)
    /\ C4_General
C4_Witness == C4_Example /\ tk.out = <<"o", "u", "t", ":", " ", "B", " ", "/", " ", "A">> /\ tk.left = <<T_C>>

(***************************************************************************)
(* Draws: headers that fill the pool and draw from it                      *)
(***************************************************************************)
D_pool2 == <<"!", "!", "p", "o", "o", "l", " ", "2", "x", "2", "|", "8">>
D_pool1 == <<"!", "!", "p", "o", "o", "l", " ", "0", "|", "7">>
D_addpool1 == <<"!", "!", "a", "d", "d", "p", "o", "o", "l", " ", "1", "x">>
D_addpool2 == <<"!", "!", "a", "d", "d", "p", "o", "o", "l", " ", "2", "x">>
D_take1 == <<"!", "!", "a", "d", "d", " ", "!", "!", "t", "a", "k", "e">>
D_take2 == <<"!", "x", "!", "!", "t", "a", "k", "e", "!", "!", "t", "a", "k", "e">>
D_flush == <<"!", "!", "f", "l", "u", "s", "h">>
DrawLines == {D_pool2, D_pool1, D_addpool1, D_addpool2, D_take1, D_take2, D_flush}
\* The scripts of at most k results of gen_range over a pool of n entries
DrawScripts(n, k) == UNION {[1..j -> 0..(n - 1)] : j \in 0..k}

InitDraw == InitHeader(MaxDrawLines)
DrawLine == \E line \in DrawLines, ds \in DrawScripts(Len(run.pool), MaxDraws) : HeaderLine(line, ds)
NextDraw == DrawLine \/ HeaderEnd
SpecDraw == InitDraw /\ [][NextDraw]_vars

\* The draws each line asks for
DrawsWanted(line) ==
    CASE line \in {D_addpool1, D_take1} -> 1
      [] line \in {D_addpool2, D_take2} -> 2
      [] OTHER -> 0

\* C5: gen_range is never called with an empty range; a line that draws more
\* than the pool holds, so also any draw from the empty pool, is an error;
\* and a line that draws and succeeds shrinks the pool by the draws it made
C5_Draws ==
    [][ (result = "running" /\ header' # header) =>
            /\ \A i \in DOMAIN last'.calls : last'.calls[i] > 0
            /\ Len(last'.calls) = IF DrawsWanted(header'[Len(header')]) < Len(run.pool)
                                    THEN DrawsWanted(header'[Len(header')]) ELSE Len(run.pool)
            /\ \A i \in DOMAIN last'.calls : last'.calls[i] = Len(run.pool) - i + 1
            /\ DrawsWanted(header'[Len(header')]) > Len(run.pool) => result' = "err"
            /\ (DrawsWanted(header'[Len(header')]) > 0 /\ result' = "running") =>
                    Len(run'.pool) = Len(run.pool) - DrawsWanted(header'[Len(header')])
      ]_vars
C5_Witness ==
    /\ header = <<D_pool2, D_addpool2, D_take1>>
    /\ result = "err"
    /\ run.pool = <<>>
    /\ last.calls = <<>>
    /\ rng = <<0, 0>>

(***************************************************************************)
(* Pools: headers of !!pool lines                                          *)
(***************************************************************************)
Q_foo == <<"!", "!", "p", "o", "o", "l", " ", "2", "x", " ", "f", "o", "o", "_", "{", "a", "-", "c", "}">>
Q_zero == <<"!", "!", "p", "o", "o", "l", " ", "0", "x", "T">>
Q_plain == <<"!", "!", "p", "o", "o", "l", " ", "T">>
Q_two == <<"!", "!", "p", "o", "o", "l", " ", "2", "x", "T">>
Q_rev == <<"!", "!", "p", "o", "o", "l", " ", "{", "c", "-", "a", "}">>
Q_nest == <<"!", "!", "p", "o", "o", "l", " ", "{", "a", "-", "b", "}", "{", "0", "-", "1", "}">>
Q_take == <<"!", "x", "!", "!", "t", "a", "k", "e">>
PoolLines == {Q_foo, Q_zero, Q_plain, Q_two, Q_rev, Q_nest, Q_take, D_flush}

InitPool == InitHeader(MaxPoolLines)
PoolLine == \E line \in PoolLines, ds \in DrawScripts(Len(run.pool), 1) : HeaderLine(line, ds)
NextPool == PoolLine \/ HeaderEnd
SpecPool == InitPool /\ [][NextPool]_vars

\* The multiplier and the brace expansion each !!pool line names
PoolMultiplier(line) == IF line \in {Q_foo, Q_two} THEN 2 ELSE IF line = Q_zero THEN 0 ELSE 1
PoolExpansion(line) ==
    CASE line = Q_foo -> << <<"f", "o", "o", "_", "a">>, <<"f", "o", "o", "_", "b">>, <<"f", "o", "o", "_", "c">> >>
      [] line \in {Q_zero, Q_plain, Q_two} -> << <<"T">> >>
      [] line = Q_rev -> <<>>
      [] line = Q_nest -> << <<"a", "0">>, <<"a", "1">>, <<"b", "0">>, <<"b", "1">> >>
RECURSIVE Times(_, _)
Times(seq, n) == IF n = 0 THEN <<>> ELSE seq \o Times(seq, n - 1)

\* The rule of C7: !!pool Nx T appends the brace expansion of T, N times
\* over, after the entries the pool holds
PoolAppends ==
    [][ \A line \in {Q_foo, Q_zero, Q_plain, Q_two, Q_rev, Q_nest} :
            (result = "running" /\ header' = Append(header, line)) =>
                /\ result' = "running"
                /\ run'.pool = run.pool \o Times(PoolExpansion(line), PoolMultiplier(line))
      ]_vars
\* C7: !!pool 2x foo_{a-c} appends exactly the six entries foo_a, foo_b,
\* foo_c, foo_a, foo_b, foo_c to the pool, in that order
C7_PoolExample ==
    header = <<Q_foo>> =>
        run.pool = << <<"f", "o", "o", "_", "a">>, <<"f", "o", "o", "_", "b">>, <<"f", "o", "o", "_", "c">>, <<"f", "o", "o", "_", "a">>, <<"f", "o", "o", "_", "b">>, <<"f", "o", "o", "_", "c">> >>

\* C8: !!pool 0xT returns Ok, with no underflow of count - 1
C8_ZeroMultiplier ==
    (header # <<>> /\ header[Len(header)] = Q_zero) => result \in {"running", "ok"}

(***************************************************************************)
(* Pickups: headers of pickup lines                                        *)
(***************************************************************************)
K_skill == <<"1", "|", "2", "|", "2", "|", "8">>
K_spaced == <<" ", " ", "3", "|", "1", "|", "1", "|", "0", " ">>
K_comment == <<"3", "|", "2", "|", "9", "|", "0", " ", "/", "/", " ", "w", "a", "t", "e", "r">>
K_blank == <<>>
K_short == <<"3", "|", "0">>
K_bad == <<"3", "|", "0", "|", "9", "9">>
PickupLines == {L_pickup, K_skill, K_spaced, K_comment, K_blank, K_short, K_bad}

InitPickup == InitHeader(MaxPickupLines)
PickupLine == \E line \in PickupLines : HeaderLine(line, <<>>)
NextPickup == PickupLine \/ HeaderEnd
SpecPickup == InitPickup /\ [][NextPickup]_vars

RECURSIVE Emitted(_)
\* Each line as it is, followed by a newline
Emitted(lines) == IF lines = <<>> THEN <<>> ELSE Head(lines) \o NL \o Emitted(Tail(lines))
\* The uber state and the item each pickup line names
Named(line) ==
    CASE line = L_pickup -> SpiritLight5000At3_0
      [] line = K_skill ->
            [group |-> 1, id |-> 2, value |-> <<>>, item |-> [kind |-> "Skill", n |-> 8]]
      [] line = K_spaced ->
            [group |-> 3, id |-> 1, value |-> <<>>, item |-> [kind |-> "Resource", n |-> 0]]
      [] line = K_comment ->
            [group |-> 3, id |-> 2, value |-> <<>>, item |-> [kind |-> "Water", n |-> 0]]
RECURSIVE Placements(_)
Placements(lines) ==
    IF lines = <<>> THEN <<>>
    ELSE IF Head(lines) = K_blank THEN Placements(Tail(lines))
    ELSE <<Named(Head(lines))>> \o Placements(Tail(lines))

\* C9: the header "3|0|0|5000" returns "3|0|0|5000\n\n" and preplaces
\* SpiritLight(5000) at (3,0), once; every pickup line is emitted as it is,
\* followed by a newline, and placed once, and the output ends with one more
\* newline; a malformed pickup is an error
C9_PickupEmitted ==
    /\ (header = <<L_pickup>> /\ result = "ok") =>
            /\ run.processed = <<"3", "|", "0", "|", "0", "|", "5", "0", "0", "0">> \o <<"\n", "\n">>
            /\ world.preplaced = <<SpiritLight5000At3_0>>
    /\ (header # <<>> /\ header[Len(header)] \in {K_short, K_bad}) <=> result = "err"
    /\ result = "running" =>
            /\ run.processed = Emitted(header)
            /\ world.preplaced = Placements(header)
    /\ result = "ok" =>
            /\ run.processed = Emitted(header) \o NL
            /\ world.preplaced = Placements(header)
C9_Witness ==
    /\ header = <<L_pickup>>
    /\ result = "ok"
    /\ run.processed = L_pickup \o NL \o NL
    /\ Len(world.preplaced) = 1

(***************************************************************************)
(* Inventory: headers of !!add and !!remove lines and pickups              *)
(***************************************************************************)
I_add3 == <<"!", "!", "a", "d", "d", " ", "3", "x", "2", "|", "8">>
I_add1 == <<"!", "!", "a", "d", "d", " ", "2", "|", "8">>
I_rem5 == <<"!", "!", "r", "e", "m", "o", "v", "e", " ", "5", "x", "2", "|", "8">>
I_rem1 == <<"!", "!", "r", "e", "m", "o", "v", "e", " ", "2", "|", "8">>
I_pick == <<"3", "|", "0", "|", "2", "|", "8">>
I_addsl == <<"!", "!", "a", "d", "d", " ", "2", "x", "0", "|", "1", "0", "0">>
I_remsl == <<"!", "!", "r", "e", "m", "o", "v", "e", " ", "3", "x", "0", "|", "1", "0", "0">>
InvLines == {I_add3, I_add1, I_rem5, I_rem1, I_pick, I_addsl, I_remsl}

InitInv == InitHeader(MaxInvLines)
InvLine == \E line \in InvLines : HeaderLine(line, <<>>)
NextInv == InvLine \/ HeaderEnd
SpecInv == InitInv /\ [][NextInv]_vars

Launch == [kind |-> "Skill", n |-> 8]
SpiritLight100 == [kind |-> "SpiritLight", n |-> 100]
SpiritLight1 == [kind |-> "SpiritLight", n |-> 1]
\* The item each line removes, how many copies, and the item its shortfall is
\* recorded as
Removed(line) == IF line = I_remsl THEN SpiritLight100 ELSE Launch
RemovedCopies(line) == CASE line = I_rem5 -> 5 [] line = I_remsl -> 3 [] OTHER -> 1
RecordedAs(line) == IF line = I_remsl THEN SpiritLight1 ELSE Launch
Copies(inventory, item) == IF item \in DOMAIN inventory THEN inventory[item] ELSE 0
Shortfall(line) == RemovedCopies(line) - Copies(world.pool, Removed(line))

\* C10: removing N copies of an item of which the pool holds M < N adds N - M
\* of it to negative_inventory, as SpiritLight(1) when it is a SpiritLight,
\* and nothing else; with M >= N negative_inventory stays as it is; add 3 then
\* remove 5 of Skill Launch leaves 2
C10_Shortfall ==
    [][ /\ \A line \in {I_rem5, I_rem1, I_pick, I_remsl} :
            (result = "running" /\ header' = Append(header, line)) =>
                /\ result' = "running"
                /\ Shortfall(line) <= 0 => context'.negative_inventory = context.negative_inventory
                /\ Shortfall(line) > 0 =>
                    /\ DOMAIN context'.negative_inventory =
                            DOMAIN context.negative_inventory \cup {RecordedAs(line)}
                    /\ \A item \in DOMAIN context'.negative_inventory :
                            context'.negative_inventory[item] =
                                Copies(context.negative_inventory, item)
                                    + (IF item = RecordedAs(line) THEN Shortfall(line) ELSE 0)
        /\ header' = <<I_add3, I_rem5>> => context'.negative_inventory = (Launch :> 2)
      ]_vars
C10_Witness ==
    /\ header = <<I_add3, I_rem5, I_addsl, I_remsl>>
    /\ result = "running"
    /\ context.negative_inventory = (Launch :> 2) @@ (SpiritLight1 :> 1)
    /\ world.pool = EmptyMap


(***************************************************************************)
(* SpecItem: parse_item called on its own on one item text                 *)
(***************************************************************************)
MajorTags ==
    {<<"0">>, <<"1">>, <<"2">>, <<"3">>, <<"4">>, <<"5">>, <<"6">>, <<"7">>, <<"8">>, <<"9">>, <<"1", "0">>, <<"1", "1">>, <<"1", "2">>, <<"1", "3">>,
     <<"1", "4">>, <<"1", "5">>, <<"1", "6">>, <<"1", "7">>, <<"1", "8">>}
\* The tags whose operand may carry a '-'
SignTags == {<<"0">>, <<"2">>, <<"3">>, <<"5">>, <<"9">>}
SignOperands == {<<"0">>, <<"1">>, <<"2">>, <<"8">>, <<"6", "5">>, <<"5", "0", "0", "0">>}
Bar(a, b) == a \o <<"|">> \o b
Minus(a) == <<"-">> \o a
\* tag|n, tag|-n and -tag|n
SignTexts ==
    {Bar(t, n) : t \in MajorTags, n \in SignOperands}
    \cup {Bar(t, Minus(n)) : t \in MajorTags, n \in SignOperands}
    \cup {Bar(Minus(t), n) : t \in MajorTags, n \in SignOperands}

\* Items of the variants that take a fixed number of operands, each with all of them
FixedArity ==
    {<<"0", "|", "4", "0", "0">>, <<"1", "|", "2">>, <<"2", "|", "8">>, <<"3", "|", "1">>, <<"5", "|", "0">>, <<"9", "|", "0">>, <<"1", "0", "|", "3", "1">>, <<"1", "1", "|", "0">>, <<"1", "4", "|", "0">>, <<"1", "5", "|", "1">>,
     <<"4", "|", "0">>, <<"4", "|", "1", "|", "0", "|", "5">>, <<"4", "|", "2">>, <<"4", "|", "3">>, <<"4", "|", "4", "|", "1", "|", "2", "|", "3">>, <<"4", "|", "5", "|", "1", "|", "2", "|", "3">>, <<"4", "|", "6", "|", "1", "|", "2", "|", "3">>, <<"4", "|", "7", "|", "0", "|", "1">>,
     <<"4", "|", "8", "|", "1", ".", "5", "|", "-", "2">>, <<"4", "|", "9", "|", "1", "|", "2">>, <<"4", "|", "1", "0", "|", "1", "|", "2">>, <<"4", "|", "1", "1", "|", "1", "|", "-", "2">>, <<"4", "|", "1", "2", "|", "5">>, <<"4", "|", "1", "3", "|", "5">>, <<"4", "|", "1", "4", "|", "-", "5">>,
     <<"4", "|", "1", "5", "|", "1", "|", "1", "0", "0">>, <<"4", "|", "1", "6", "|", "s", "i", "g">>, <<"4", "|", "2", "0", "|", "1", "|", "2">>, <<"4", "|", "2", "1", "|", "1", "|", "2">>, <<"4", "|", "2", "2", "|", "1", "|", "1", "|", "2">>, <<"4", "|", "2", "3", "|", "1">>,
     <<"4", "|", "2", "8", "|", "1", "0", "0">>, <<"8", "|", "5", "|", "3", "|", "i", "n", "t", "|", "6", "|", "1">>, <<"8", "|", "5", "|", "3", "|", "b", "o", "o", "l", "|", "t", "r", "u", "e", "|", "s", "k", "i", "p", "=", "0">>, <<"1", "6", "|", "2", "|", "0", "|", "1", "|", "s", "h", "a", "r", "d", ":", "1">>,
     <<"1", "6", "|", "3", "|", "0", "|", "1", "|", "1", "|", "2", "|", "3", "|", "4">>, <<"1", "6", "|", "5", "|", "0", "|", "t", "r", "u", "e">>, <<"1", "6", "|", "6", "|", "0">>, <<"1", "6", "|", "7", "|", "0", "|", "1">>, <<"1", "6", "|", "8">>, <<"1", "7", "|", "0", "|", "1", "|", "2", "|", "f", "i", "l", "e", ":", "a">>,
     <<"1", "7", "|", "1", "|", "1", "|", "2", "|", "t">>, <<"1", "7", "|", "2", "|", "1", "|", "2", "|", "d">>, <<"1", "7", "|", "3", "|", "1", "|", "2", "|", "t", "r", "u", "e">>, <<"1", "7", "|", "4", "|", "1", "|", "2", "|", "f", "a", "l", "s", "e">>}
\* Items that end in free text
RestText == {<<"6", "|", "a">>, <<"1", "6", "|", "0", "|", "0", "|", "1", "|", "n">>, <<"1", "6", "|", "1", "|", "0", "|", "1", "|", "d">>}
\* Items that end in a child item
RestChild ==
    {<<"4", "|", "1", "7", "|", "1", "|", "2", "|", "3", "|", "0", "|", "4", "0", "0">>, <<"4", "|", "1", "8", "|", "1", "|", "2", "|", "3", "|", "2", "|", "8">>, <<"4", "|", "1", "9", "|", "1", "|", "2", "|", "3", "|", "9", "|", "0">>, <<"4", "|", "2", "4", "|", "0", "|", "0", "|", "1", "|", "1", "|", "0", "|", "4", "0", "0">>,
     <<"4", "|", "2", "5", "|", "1", "|", "0", "|", "4", "0", "0">>, <<"4", "|", "2", "6", "|", "1", "|", "3", "|", "1">>, <<"4", "|", "2", "7", "|", "1", "|", "5", "|", "0">>, <<"1", "6", "|", "4", "|", "0", "|", "1", "|", "0", "|", "0", "|", "4", "0", "0">>}
Leftovers == {<<>>, <<"4", "0", "0">>, <<"1">>}
\* Items whose last operand is text, given empty
EmptyText == {<<"4", "|", "1", "6", "|">>, <<"4", "|", "2", "5", "|", "|", "0", "|", "4", "0", "0">>, <<"1", "6", "|", "0", "|", "0", "|", "1", "|">>, <<"1", "7", "|", "1", "|", "1", "|", "2", "|">>}
NoTag == {<<>>, <<"0", "|", "|", "4", "0", "0">>, <<" ">>, <<"|">>, <<"|", "0">>, <<"x", "|", "0">>, <<"0", "0", "|", "1">>, <<"0", " ", "|", "1">>, <<"7">>, <<"7", "|">>, <<"1", "8", "|", "0", "|", "1">>}
ArityTexts ==
    MajorTags \cup {Bar(t, <<>>) : t \in MajorTags} \cup NoTag \cup EmptyText
    \cup FixedArity \cup RestText \cup RestChild
    \cup {Bar(v, x) : v \in FixedArity \cup RestText \cup RestChild, x \in Leftovers}

UberValues ==
    {<<"t", "r", "u", "e">>, <<"f", "a", "l", "s", "e">>, <<"3">>, <<"-", "3">>, <<"3", "0", "0">>, <<"1", ".", "5">>, <<"h", "m">>, <<>>, <<"$", "(", "1", "|", "2", ")">>, <<"$", "(", "1", "|", "2">>, <<"$", "(", "1", ")">>,
     <<"[", "1", ",", "2", "]">>, <<"[", "1", ",", " ", "$", "(", "1", "|", "2", ")", "]">>, <<"[", "1", ",", "h", "m", "]">>, <<"[", "t", "r", "u", "e", ",", "f", "a", "l", "s", "e", "]">>, <<"[", "1">>, <<"[", "1", "]">>, <<"3", "|", "1">>, <<"3", "|", "s", "k", "i", "p", "=", "2">>,
     <<"3", "|", "0">>, <<"3", "|", "x">>}
UberSigns == {<<>>, <<"+">>, <<"-">>}
\* 8|5|3|type|sign value
UberTexts ==
    {Bar(Bar(<<"8", "|", "5", "|", "3">>, t), s \o v) : t \in UberTypes \cup {<<"s", "t", "r", "i", "n", "g">>}, s \in UberSigns,
                                     v \in UberValues}
    \cup {<<"8", "|", "5", "|", "3", "|", "b", "o", "o", "l", "|", "3">>, <<"8", "|", "5", "|", "3", "|", "f", "l", "o", "a", "t", "|", "h", "m">>, <<"8", "|", "5", "|", "3">>, <<"8", "|", "5">>, <<"8", "|", "x", "|", "3", "|", "i", "n", "t", "|", "1">>}

ItemTexts == SignTexts \cup ArityTexts \cup UberTexts

InitItem == \E item \in ItemTexts : InitCall("parse_item", item)
ParseItem == Returned("parse_item", parse_item(call.input))
NextItem == ParseItem
SpecItem == InitItem /\ [][NextItem]_vars

Parsed(item) == call.fn = "parse_item" /\ call.phase = "done" /\ call.input = item

\* The Remove sibling of an item
RemoveOf(item) ==
    [item EXCEPT !.kind = CASE @ = "SpiritLight" -> "RemoveSpiritLight"
                            [] @ = "Skill" -> "RemoveSkill"
                            [] @ = "Shard" -> "RemoveShard"
                            [] @ = "Teleporter" -> "RemoveTeleporter"
                            [] @ = "Water" -> "RemoveWater"]
\* What the tags 0, 2, 3, 5 and 9 give for a '-' before the operand, and
\* what the examples of the claim give
SignedOperand ==
    /\ \A t \in SignTags, n \in SignOperands :
        Parsed(Bar(t, Minus(n))) =>
            /\ call.out.ok = parse_item(Bar(t, n)).ok
            /\ call.out.ok => call.out.item = RemoveOf(parse_item(Bar(t, n)).item)
    /\ \A t \in MajorTags, n \in SignOperands : Parsed(Bar(Minus(t), n)) => ~call.out.ok
    /\ Parsed(<<"0", "|", "-", "5", "0", "0", "0">>) => call.out = ItemOk(Item("RemoveSpiritLight", 5000))
    /\ Parsed(<<"9", "|", "-", "0">>) => call.out = ItemOk(Item("RemoveWater", 0))
    /\ Parsed(<<"1", "|", "-", "2">>) => ~call.out.ok
    /\ Parsed(<<"-", "0", "|", "6", "5">>) => ~call.out.ok

ValidTags == MajorTags \ {<<"7">>, <<"1", "2">>, <<"1", "3">>, <<"1", "8">>}
TagOf(item) == Head(Split(Trim(item), <<"|">>))
ParsedAny == call.fn = "parse_item" /\ call.phase = "done"
\* What holds of tags, missing operands and leftover operands
ArityRules ==
    /\ Parsed(<<>>) => ~call.out.ok
    /\ ParsedAny /\ TagOf(call.input) \notin ValidTags => ~call.out.ok
    /\ \A t \in MajorTags : Parsed(t) => ~call.out.ok
    /\ Parsed(<<"0", "|">>) => ~call.out.ok
    /\ Parsed(<<"0", "|", "|", "4", "0", "0">>) => ~call.out.ok
    /\ \A v \in FixedArity \cup RestText \cup RestChild : Parsed(v) => call.out.ok
    /\ \A v \in FixedArity \cup RestChild, x \in Leftovers : Parsed(Bar(v, x)) => ~call.out.ok
    /\ \A v \in RestText, x \in Leftovers :
        Parsed(Bar(v, x)) =>
            /\ call.out.ok
            /\ call.out.item \in {Message(Bar(Drop(v, 2), x))}
                    \cup {WheelCommand(c, [wheel |-> 0, position |-> 1, text |-> Bar(Drop(v, 9), x)]) :
                            c \in {"SetName", "SetDescription"}}

TypedLiteral(uber_type, value) ==
    CASE uber_type \in {<<"b", "o", "o", "l">>, <<"t", "e", "l", "e", "p", "o", "r", "t", "e", "r">>} -> value \in {<<"t", "r", "u", "e">>, <<"f", "a", "l", "s", "e">>}
      [] uber_type = <<"b", "y", "t", "e">> -> ParseUnsigned(value, U8Max).ok
      [] uber_type = <<"i", "n", "t">> -> ParseSigned(value, 0 - IdMax, IdMax).ok
      [] uber_type = <<"f", "l", "o", "a", "t">> -> ParseFloatOk(value)
TypedBoundary(uber_type, boundary) ==
    boundary.boundary = "Value" => TypedLiteral(uber_type, boundary.value)
UberText(uber_type, value) == Bar(Bar(<<"8", "|", "5", "|", "3">>, uber_type), value)

\* C16: every item parse_set_uber_state returns is signed only if its type is
\* not bool, a '+' gives signed with sign, a '-' signed without sign, and a
\* literal value or range boundary reads as the declared type; a sign on a
\* bool, `8|5|3|bool|3` and `8|5|3|float|hm` are errors
C16_UberStateItem ==
    /\ ParsedAny /\ call.out.ok /\ call.out.item.kind = "UberState" =>
        /\ call.out.item.signed => call.out.item.uber_type # <<"b", "o", "o", "l">>
        /\ call.out.item.sign => call.out.item.signed
        /\ call.out.item.operator.op = "Value" =>
            TypedLiteral(call.out.item.uber_type, call.out.item.operator.value)
        /\ call.out.item.operator.op = "Range" =>
            /\ TypedBoundary(call.out.item.uber_type, call.out.item.operator.start)
            /\ TypedBoundary(call.out.item.uber_type, call.out.item.operator.end)
    /\ \A s \in {<<"+">>, <<"-">>}, v \in UberValues : Parsed(UberText(<<"b", "o", "o", "l">>, s \o v)) => ~call.out.ok
    /\ \A t \in UberTypes, v \in UberValues :
        /\ Parsed(UberText(t, <<"+">> \o v)) /\ call.out.ok =>
            call.out.item.signed /\ call.out.item.sign
        /\ Parsed(UberText(t, <<"-">> \o v)) /\ call.out.ok =>
            call.out.item.signed /\ ~call.out.item.sign
        /\ Parsed(UberText(t, v)) /\ call.out.ok /\ ~StartsWith(v, <<"-">>) =>
            ~call.out.item.signed /\ ~call.out.item.sign
    /\ Parsed(<<"8", "|", "5", "|", "3", "|", "b", "o", "o", "l", "|", "3">>) => ~call.out.ok
    /\ Parsed(<<"8", "|", "5", "|", "3", "|", "f", "l", "o", "a", "t", "|", "h", "m">>) => ~call.out.ok

C16_Witness ==
    /\ Parsed(<<"8", "|", "5", "|", "3", "|", "i", "n", "t", "|", "+", "3", "|", "1">>)
    /\ call.out = ItemOk(UberStateItem([group |-> 5, id |-> 3], <<"i", "n", "t">>, TRUE, TRUE,
                                       [op |-> "Value", value |-> <<"3">>], TRUE))

(***************************************************************************)
(* SpecSpawn: pickups that set an uber state, on spawn and elsewhere, with *)
(* a graph                                                                 *)
(***************************************************************************)
Node(identifier, index, can_place, uber_state, zone) ==
    [identifier |-> identifier, index |-> index, can_place |-> can_place,
     uber_state |-> uber_state, zone |-> zone]
State(group, id, value) == [ok |-> TRUE, group |-> group, id |-> id, value |-> value]
N_free == Node(<<"a">>, 0, TRUE, State(12, 100, <<>>), -1)
N_taken == Node(<<"b">>, 1, FALSE, State(12, 100, <<>>), -1)
N_five == Node(<<"c">>, 2, TRUE, State(12, 100, <<"5">>), -1)
N_anchor == Node(<<"d">>, 3, TRUE, NoUberState, -1)
SpawnGraphs ==
    {<<>>, <<N_free>>, <<N_taken>>, <<N_five>>, <<N_anchor>>, <<N_taken, N_free>>,
     <<N_anchor, N_five>>, <<N_free, N_five>>}

\* The pickup lines of the model: where the pickup is, and the item it names
SetState(uber_type, operator) ==
    UberStateItem([group |-> 12, id |-> 100], uber_type, FALSE, FALSE, operator, FALSE)
Pickup(text, group, id, item) == [text |-> text, group |-> group, id |-> id, item |-> item]
SpawnPickups ==
    {Pickup(<<"3", "|", "0", "|", "8", "|", "1", "2", "|", "1", "0", "0", "|", "b", "o", "o", "l", "|", "t", "r", "u", "e">>, 3, 0, SetState(<<"b", "o", "o", "l">>, [op |-> "Value", value |-> <<"t", "r", "u", "e">>])),
     Pickup(<<"3", "|", "0", "|", "8", "|", "1", "2", "|", "1", "0", "0", "|", "i", "n", "t", "|", "5">>, 3, 0, SetState(<<"i", "n", "t">>, [op |-> "Value", value |-> <<"5">>])),
     Pickup(<<"3", "|", "0", "|", "8", "|", "1", "2", "|", "1", "0", "0", "|", "i", "n", "t", "|", "7">>, 3, 0, SetState(<<"i", "n", "t">>, [op |-> "Value", value |-> <<"7">>])),
     Pickup(<<"3", "|", "1", "|", "8", "|", "1", "2", "|", "1", "0", "0", "|", "b", "o", "o", "l", "|", "t", "r", "u", "e">>, 3, 1, SetState(<<"b", "o", "o", "l">>, [op |-> "Value", value |-> <<"t", "r", "u", "e">>])),
     Pickup(<<"5", "|", "0", "|", "8", "|", "1", "2", "|", "1", "0", "0", "|", "i", "n", "t", "|", "5">>, 5, 0, SetState(<<"i", "n", "t">>, [op |-> "Value", value |-> <<"5">>])),
     Pickup(<<"3", "|", "0", "|", "8", "|", "1", "2", "|", "1", "0", "0", "|", "i", "n", "t", "|", "$", "(", "1", "|", "2", ")">>, 3, 0,
            SetState(<<"i", "n", "t">>, [op |-> "Pointer", identifier |-> [group |-> 1, id |-> 2]])),
     Pickup(<<"3", "|", "0", "|", "8", "|", "1", "2", "|", "1", "0", "0", "|", "i", "n", "t", "|", "[", "5", ",", "5", "]">>, 3, 0,
            SetState(<<"i", "n", "t">>, [op |-> "Range",
                              start |-> [ok |-> TRUE, boundary |-> "Value", value |-> <<"5">>],
                              end |-> [ok |-> TRUE, boundary |-> "Value", value |-> <<"5">>]])),
     Pickup(<<"3", "|", "0", "|", "0", "|", "5", "0", "0", "0">>, 3, 0, Item("SpiritLight", 5000))}
SpawnLines == {p.text : p \in SpawnPickups}
PickupOf(line) == CHOOSE p \in SpawnPickups : p.text = line

InitSpawn ==
    /\ \E graph \in SpawnGraphs :
        InitFrom(MaxSpawnLines, [NewWorld EXCEPT !.graph = graph], NewContext)
    /\ tk = NoTake
    /\ call = NoCall
SpawnLine == \E line \in SpawnLines : HeaderLine(line, <<>>)
NextSpawn == SpawnLine \/ HeaderEnd
SpecSpawn == InitSpawn /\ [][NextSpawn]_vars

Placed(group, id, value, item) == [group |-> group, id |-> id, value |-> value, item |-> item]
\* The location a pickup's item sets to a literal value, "true" read as the
\* empty value: a location where a placeable node of the graph sits
SetsPlaceable(p, graph) ==
    /\ p.item.kind = "UberState"
    /\ p.item.operator.op = "Value"
    /\ \E i \in 1..Len(graph) :
        /\ graph[i].can_place
        /\ graph[i].uber_state =
               State(12, 100, IF p.item.operator.value = <<"t", "r", "u", "e">> THEN <<>>
                              ELSE p.item.operator.value)
\* The preplace calls of one pickup
SpawnCalls(p, graph) ==
    (IF p.group = 3 /\ p.id = 0 /\ SetsPlaceable(p, graph)
     THEN <<Placed(12, 100, IF p.item.operator.value = <<"t", "r", "u", "e">> THEN <<>>
                            ELSE p.item.operator.value, Message(<<"6", "|", "f", "=", "0", "|", "q", "u", "i", "e", "t", "|", "n", "o", "c", "l", "e", "a", "r">>))>>
     ELSE <<>>)
    \o <<Placed(p.group, p.id, <<>>, p.item)>>
RECURSIVE SpawnPlacements(_, _)
SpawnPlacements(lines, graph) ==
    IF lines = <<>> THEN <<>>
    ELSE SpawnCalls(PickupOf(Head(lines)), graph) \o SpawnPlacements(Tail(lines), graph)

\* C11: a pickup on spawn (3,0) whose item sets an uber state to a literal
\* value, at a location where a placeable node of the graph sits, is
\* preplaced twice: the noclear message on that location, then the item on
\* spawn. Every other pickup is preplaced once: when no placeable node has
\* that state, when the pickup is not on (3,0), when the operator is a
\* pointer or a range.
C11_SpawnPreplace ==
    /\ result # "err"
    /\ world.preplaced = SpawnPlacements(header, world.graph)

C11_Witness ==
    /\ header = << <<"3", "|", "0", "|", "8", "|", "1", "2", "|", "1", "0", "0", "|", "b", "o", "o", "l", "|", "t", "r", "u", "e">> >>
    /\ world.preplaced =
        <<Placed(12, 100, <<>>, Message(<<"6", "|", "f", "=", "0", "|", "q", "u", "i", "e", "t", "|", "n", "o", "c", "l", "e", "a", "r">>)),
          Placed(3, 0, <<>>, SetState(<<"b", "o", "o", "l">>, [op |-> "Value", value |-> <<"t", "r", "u", "e">>]))>>
C11_WitnessOnce ==
    /\ header = << <<"3", "|", "0", "|", "8", "|", "1", "2", "|", "1", "0", "0", "|", "b", "o", "o", "l", "|", "t", "r", "u", "e">> >>
    /\ Len(world.preplaced) = 1

(***************************************************************************)
(* SpecOrder: includes, flags, sets and emitted lines, on a context that   *)
(* an earlier header has filled                                            *)
(***************************************************************************)
O_include_a == <<"!", "!", "i", "n", "c", "l", "u", "d", "e", " ", "a">>
O_include_b == <<"!", "!", "i", "n", "c", "l", "u", "d", "e", " ", "b", ".", "t", "x", "t">>
O_flags == <<"F", "l", "a", "g", "s", ":", " ", "x", ",", " ", "y">>
O_set == <<"!", "!", "s", "e", "t", " ", "a">>
O_set_unknown == <<"!", "!", "s", "e", "t", " ", "z", "z">>
O_pickup == <<"3", "|", "0", "|", "0", "|", "5", "0", "0", "0">>
O_verbatim == <<"!", "1", "|", "2", "|", "3">>
OrderLines == {O_include_a, O_include_b, O_flags, O_set, O_set_unknown, O_pickup, O_verbatim}
\* What an earlier header left in the context
FilledContext ==
    [NewContext EXCEPT !.dependencies = << <<"o", "l", "d", ".", "w", "o", "t", "w", "r", "h">> >>, !.flags = << <<"f">> >>,
                       !.sets = << <<"s">> >>]

InitOrder ==
    /\ \E c \in {NewContext, FilledContext} :
        InitFrom(MaxOrderLines, [NewWorld EXCEPT !.graph = <<N_free>>], c)
    /\ param_values = EmptyMap
    /\ ~overflow_checks
    /\ tk = NoTake
    /\ call = NoCall
OrderLine == \E line \in OrderLines : HeaderLine(line, <<>>)
NextOrder == OrderLine \/ HeaderEnd
SpecOrder == InitOrder /\ [][NextOrder]_vars

Adds(dependencies, flags, sets, emitted) ==
    [dependencies |-> dependencies, flags |-> flags, sets |-> sets, emitted |-> emitted]
\* What each line of the model adds, once it is processed without an error
AddsOf(line) ==
    CASE line = O_include_a -> Adds(<< <<"a", ".", "w", "o", "t", "w", "r", "h">> >>, <<>>, <<>>, <<>>)
      [] line = O_include_b -> Adds(<< <<"b", ".", "w", "o", "t", "w", "r", "h">> >>, <<>>, <<>>, <<>>)
      [] line = O_flags -> Adds(<<>>, << <<"x">>, <<"y">> >>, <<>>, <<>>)
      [] line = O_set -> Adds(<<>>, <<>>, << <<"a">> >>, <<>>)
      [] line = O_pickup -> Adds(<<>>, <<>>, <<>>, O_pickup \o NL)
      [] line = O_verbatim -> Adds(<<>>, <<>>, <<>>, <<"1", "|", "2", "|", "3">> \o NL)
      [] OTHER -> Adds(<<>>, <<>>, <<>>, <<>>)
IsPrefix(s, t) == Len(s) <= Len(t) /\ SubSeq(t, 1, Len(s)) = s
OrderStep ==
    /\ IsPrefix(context.dependencies, context'.dependencies)
    /\ IsPrefix(context.flags, context'.flags)
    /\ IsPrefix(context.sets, context'.sets)
    /\ IsPrefix(run.processed, run'.processed)
    /\ header' # header /\ result' = "running" =>
        /\ context'.dependencies = context.dependencies \o AddsOf(header'[Len(header')]).dependencies
        /\ context'.flags = context.flags \o AddsOf(header'[Len(header')]).flags
        /\ context'.sets = context.sets \o AddsOf(header'[Len(header')]).sets
        /\ run'.processed = run.processed \o AddsOf(header'[Len(header')]).emitted
    /\ header' = header => context' = context /\ run'.processed = run.processed \o NL

\* C12: every step of parse_header appends to context.dependencies,
\* context.flags, context.sets and the emitted text what the line it reads
\* adds, after what they held before; nothing they held is moved or removed
C12_SourceOrder == [][OrderStep]_vars

C12_Witness ==
    /\ header = <<O_include_a, O_flags, O_set, O_include_b>>
    /\ context.dependencies = << <<"o", "l", "d", ".", "w", "o", "t", "w", "r", "h">>, <<"a", ".", "w", "o", "t", "w", "r", "h">>, <<"b", ".", "w", "o", "t", "w", "r", "h">> >>
    /\ context.flags = << <<"f">>, <<"x">>, <<"y">> >>
    /\ context.sets = << <<"s">>, <<"a">> >>

(***************************************************************************)
(* SpecCodec: an item written as text and parsed again                     *)
(***************************************************************************)
U_plain == State(1, 2, <<>>)
U_valued == State(1, 2, <<"3">>)
\* The commands of command.rs: Warp is left out, whose fields there (x, y)
\* are not the ones the parser builds (position)
Commands ==
    {Command("Autosave", <<>>), Command("Checkpoint", <<>>), Command("Magic", <<>>),
     Command("Resource", [resource |-> 0, amount |-> 5]),
     Command("Resource", [resource |-> 1, amount |-> -5]),
     Command("StopEqual", [uber_state |-> U_valued]),
     Command("StopGreater", [uber_state |-> U_valued]),
     Command("StopLess", [uber_state |-> U_valued]),
     Command("Toggle", [target |-> 0, on |-> TRUE]),
     Command("Toggle", [target |-> 2, on |-> FALSE]),
     Command("StartTimer", [identifier |-> [group |-> 1, id |-> 2]]),
     Command("StopTimer", [identifier |-> [group |-> 1, id |-> 2]]),
     Command("StateRedirect", [intercept |-> 1, set |-> -2]),
     Command("SetHealth", [amount |-> 5]), Command("SetEnergy", [amount |-> 0]),
     Command("SetSpiritLight", [amount |-> -5]),
     Command("Equip", [slot |-> 1, ability |-> 100]),
     Command("AhkSignal", [signal |-> <<"s", "i", "g">>]),
     Command("DisableSync", [uber_state |-> U_plain]),
     Command("EnableSync", [uber_state |-> U_plain])}
Plain ==
    {Item("SpiritLight", 400), Item("RemoveSpiritLight", 5000), Item("Resource", 2),
     Item("Skill", 8), Item("RemoveSkill", 8), Item("Water", 0), Item("RemoveWater", 0)}
\* The If* items around the items of a set
Nested(items) ==
    {Command(c, [uber_state |-> U_valued, item |-> i]) :
        c \in {"IfEqual", "IfGreater", "IfLess"}, i \in items}
Innermost == {Item("SpiritLight", 400), Command("DisableSync", [uber_state |-> U_plain]),
              Command("EnableSync", [uber_state |-> U_plain])}
LegalItems ==
    Plain \cup Commands \cup Nested(Plain \cup Commands)
    \cup Nested(Nested(Innermost)) \cup Nested(Nested(Nested(Innermost)))

InitCodec == \E i \in LegalItems : InitCall("round_trip", i)
RoundTrip == Returned("round_trip", parse_item(ItemCode(call.input)))
NextCodec == RoundTrip
SpecCodec == InitCodec /\ [][NextCodec]_vars

\* C13: parse_item of the text an item is written as returns that item, for
\* every command and for If* items nested three deep
C13_RoundTrip ==
    call.fn = "round_trip" /\ call.phase = "done" => call.out = ItemOk(call.input)

RECURSIVE HasEnableSync(_)
\* The item is, or holds at some depth, an EnableSync command
HasEnableSync(item) ==
    /\ item.kind = "Command"
    /\ \/ item.command = "EnableSync"
       \/ item.command \in {"IfEqual", "IfGreater", "IfLess"} /\ HasEnableSync(item.args.item)
\* Every item that holds no EnableSync is parsed back from its text
RoundTripButEnableSync ==
    call.fn = "round_trip" /\ call.phase = "done" /\ ~HasEnableSync(call.input) =>
        call.out = ItemOk(call.input)
EnableSyncRead ==
    /\ call.fn = "round_trip" /\ call.phase = "done"
    /\ call.input = Command("EnableSync", [uber_state |-> U_plain])
    /\ call.out = ItemOk(Command("DisableSync", [uber_state |-> U_plain]))

(***************************************************************************)
(* SpecPost: postprocess over the seeds of two worlds, then once more over *)
(* what it returned                                                        *)
(***************************************************************************)
N_marsh_a == Node(<<"M", "a", "r", "s", "h", "S", "p", "a", "w", "n", ".", "A">>, 0, TRUE, State(42, 17, <<>>), 0)
N_marsh_b == Node(<<"M", "a", "r", "s", "h", "S", "p", "a", "w", "n", ".", "B">>, 1, TRUE, State(55, 3, <<>>), 0)
N_hollow == Node(<<"H", "o", "l", "l", "o", "w", ".", "A">>, 2, TRUE, State(7, 7, <<>>), 1)
N_nowhere == Node(<<"N", "o", "w", "h", "e", "r", "e">>, 3, TRUE, State(9, 9, <<>>), -1)
PostGraph == <<N_marsh_a, N_marsh_b, N_hollow, N_nowhere>>

P_shares == <<"4", "2", "|", "1", "7", "|", "8", "|", "1", "2", "|", "9", "9", "|", "b", "o", "o", "l", "|", "t", "r", "u", "e">>
P_shared == <<"1", "2", "|", "9", "9", "|", "2", "|", "8">>
P_spawn0 == <<"3", "|", "0", "|", "2", "|", "8">>
P_spawn1 == <<"3", "|", "1", "|", "2", "|", "8", " ", "/", "/", " ", "a", "t", " ", "s", "p", "a", "w", "n">>
P_local == <<"4", "2", "|", "1", "7", "|", "2", "|", "8">>
P_hollow == <<"7", "|", "7", "|", "2", "|", "8">>
P_bare_share == <<"4", "2", "|", "1", "7", "|", "8", "|", "1", "2">>
P_cycle_a == <<"1", "2", "|", "1", "|", "8", "|", "1", "2", "|", "2", "|", "b", "o", "o", "l", "|", "t", "r", "u", "e">>
P_cycle_b == <<"1", "2", "|", "2", "|", "8", "|", "1", "2", "|", "1", "|", "b", "o", "o", "l", "|", "t", "r", "u", "e">>
P_self == <<"1", "2", "|", "5", "|", "8", "|", "1", "2", "|", "5", "|", "b", "o", "o", "l", "|", "t", "r", "u", "e">>
P_nowhere == <<"S", "p", "a", "w", "n", ":", " ", "1", ",", " ", "2">> \o NL \o <<"9", "|", "9", "|", "2", "|", "8">>
P_short == <<"b", "a", "d", "l", "i", "n", "e">>
P_far == <<"5", "5", "|", "3", "|", "2", "|", "8">>
P_far_shares == <<"5", "5", "|", "3", "|", "8", "|", "1", "2", "|", "9", "9", "|", "b", "o", "o", "l", "|", "t", "r", "u", "e">>

M_whereis == <<"1", "|", "1", "|", "6", "|", "$", "W", "H", "E", "R", "E", "I", "S", "(", "2", "\\", "|", "8", ")">>
M_howmany == <<"1", "|", "1", "|", "6", "|", "$", "H", "O", "W", "M", "A", "N", "Y", "(", "0", ",", " ", "2", "\\", "|", "8", ")">>
M_unclosed == <<"1", "|", "1", "|", "6", "|", "$", "W", "H", "E", "R", "E", "I", "S", "(", "2", "\\", "|", "8">>
M_twice == <<"1", "|", "1", "|", "6", "|", "$", "W", "H", "E", "R", "E", "I", "S", "(", " ", "2", "\\", "|", "8", " ", ")", " ", "$", "W", "H", "E", "R", "E", "I", "S", "(", "0", "\\", "|", "1", ")">>
M_cycle == <<"1", "|", "1", "|", "6", "|", "$", "W", "H", "E", "R", "E", "I", "S", "(", "8", "\\", "|", "1", "2", "\\", "|", "2", "\\", "|", "b", "o", "o", "l", "\\", "|", "t", "r", "u", "e", ")">>
M_self == <<"1", "|", "1", "|", "6", "|", "$", "W", "H", "E", "R", "E", "I", "S", "(", "8", "\\", "|", "1", "2", "\\", "|", "5", "\\", "|", "b", "o", "o", "l", "\\", "|", "t", "r", "u", "e", ")">>
M_none == <<"1", "|", "1", "|", "6", "|", "n", "o", "n", "e">>
M_zone == <<"1", "|", "1", "|", "6", "|", "$", "H", "O", "W", "M", "A", "N", "Y", "(", "x", ",", " ", "2", "\\", "|", "8", ")">>
M_nested == <<"1", "|", "1", "|", "6", "|", "$", "H", "O", "W", "M", "A", "N", "Y", "(", "1", ",", " ", "2", "\\", "|", "8", ")", " ", "$", "H", "O", "W", "M", "A", "N", "Y", "(", "0", ",", " ", "(", "2", "\\", "|", "8", ")">>

World0Pickups ==
    {<<>>, P_shares, P_shared, P_spawn0, P_spawn1, P_local, P_hollow, P_bare_share, P_cycle_a,
     P_nowhere, P_short, P_self}
World0Macros ==
    {M_whereis, M_howmany, M_unclosed, M_twice, M_cycle, M_self, M_none, M_zone, M_nested}
World1Seeds ==
    {<<>>, P_far, P_far_shares, P_shared, P_cycle_b, P_self, P_far \o NL \o M_whereis}
PostPlayers == {<<>>, <<<<"O", "r", "i">>, <<"K", "u">>>>}
PostInputs ==
    {[seeds |-> <<p \o NL \o m, o>>, graph |-> PostGraph, players |-> n] :
        p \in World0Pickups, m \in World0Macros, o \in World1Seeds, n \in PostPlayers}

InitPost == \E i \in PostInputs : InitCall("postprocess", i)
Postprocess ==
    Returned("postprocess",
             postprocess(call.input.seeds, call.input.graph, call.input.players, overflow_checks))
PostprocessAgain ==
    /\ call.fn = "postprocess"
    /\ call.phase = "done"
    /\ call.out.status = "ok"
    /\ call' = [call EXCEPT !.phase = "again",
                            !.out = [first |-> call.out.seeds,
                                     again |-> postprocess(call.out.seeds, call.input.graph,
                                                           call.input.players, overflow_checks)]]
    /\ UNCHANGED <<result, run, world, context, header, rng, last, param_values,
                   overflow_checks, fuel, tk>>
NextPost == Postprocess \/ PostprocessAgain
SpecPost == InitPost /\ [][NextPost]_vars

\* The macro line of world 0, as postprocess left it
MacroLine(seeds) == Lines(seeds[1])[Len(Lines(seeds[1]))]
PostDone == call.fn = "postprocess" /\ call.phase = "done"
PostOf(pickups, macro, other) ==
    /\ PostDone
    /\ call.input.seeds = <<pickups \o NL \o macro, other>>
    /\ call.input.players = <<>>
PostAgain == call.fn = "postprocess" /\ call.phase = "again"

\* C17: postprocess returns Ok or an error for every seed and never aborts
C17_NeverAborts == PostDone => call.out.status \in {"ok", "err"}
\* how_many reads the share id of an item "8|12" that has none
BareShareAborts ==
    /\ PostOf(P_bare_share, M_howmany, P_far)
    /\ call.out.status = "abort"

\* C18: after postprocess returns Ok no seed holds "$WHEREIS(" or "$HOWMANY(",
\* and a second run leaves every seed as the first left it
C18_Resolved ==
    /\ PostDone /\ call.out.status = "ok" =>
           \A w \in 1..Len(call.out.seeds) :
               /\ ~Contains(call.out.seeds[w], S_WHEREIS)
               /\ ~Contains(call.out.seeds[w], S_HOWMANY)
    /\ PostAgain => call.out.again = [status |-> "ok", seeds |-> call.out.first]
\* The second half on its own
SecondRunSame == PostAgain => call.out.again = [status |-> "ok", seeds |-> call.out.first]
UnclosedLeft ==
    /\ PostOf(P_local, M_unclosed, P_far)
    /\ call.out.status = "ok"
    /\ MacroLine(call.out.seeds) = M_unclosed

\* The lines of world 0's pickups whose item is the skill 2|8
SkillLines(seed) ==
    {i \in 1..Len(Lines(seed)) :
        /\ Len(SplitN(SeedLine(Lines(seed)[i]), 3, <<"|">>)) = 3
        /\ SplitN(SeedLine(Lines(seed)[i]), 3, <<"|">>)[3] = <<"2", "|", "8">>}
SkillAt(seed) == Take(SplitN(SeedLine(Lines(seed)[Min(SkillLines(seed))]), 3, <<"|">>), 2)
WhereisDone ==
    /\ PostDone
    /\ call.out.status = "ok"
    /\ MacroLine(call.input.seeds) = M_whereis
WhereisUnknown ==
    WhereisDone /\ SkillLines(call.input.seeds[1]) = {} =>
        MacroLine(call.out.seeds) = <<"1", "|", "1", "|", "6", "|", "U", "n", "k", "n", "o", "w", "n">>
WhereisSpawn ==
    /\ WhereisDone
    /\ SkillLines(call.input.seeds[1]) # {}
    /\ SkillAt(call.input.seeds[1]) \in {<<<<"3">>, <<"0">>>>, <<<<"3">>, <<"1">>>>}
    => MacroLine(call.out.seeds) = <<"1", "|", "1", "|", "6", "|", "S", "p", "a", "w", "n">>
\* C19: world 0 holding 42|17|8|12|99|bool|true and world 1 holding 55|3|2|8
\* at a node in Marsh, $WHEREIS(2\|8) in world 0 becomes "Player 2's Marsh";
\* with no matching item it becomes "Unknown", with a match at 3|0 or 3|1 "Spawn"
C19_WhereisAsStated ==
    /\ PostOf(P_shares, M_whereis, P_far) =>
           MacroLine(call.out.seeds) = <<"1", "|", "1", "|", "6", "|", "P", "l", "a", "y", "e", "r", " ", "2", "'", "s", " ", "M", "a", "r", "s", "h">>
    /\ WhereisUnknown
    /\ WhereisSpawn
\* C19 amended: that example becomes "Unknown", no item of world 0 matching; it
\* is world 0 holding 12|99|2|8 and world 1 holding 55|3|8|12|99|bool|true
\* at a node in Marsh that gives "Player 2's Marsh"; "Unknown" and "Spawn"
\* are as stated
C19_WhereisAmended ==
    /\ PostOf(P_shares, M_whereis, P_far) => MacroLine(call.out.seeds) = <<"1", "|", "1", "|", "6", "|", "U", "n", "k", "n", "o", "w", "n">>
    /\ PostOf(P_shared, M_whereis, P_far_shares) =>
           MacroLine(call.out.seeds) = <<"1", "|", "1", "|", "6", "|", "P", "l", "a", "y", "e", "r", " ", "2", "'", "s", " ", "M", "a", "r", "s", "h">>
    /\ WhereisUnknown
    /\ WhereisSpawn
C19_Witness ==
    /\ PostOf(P_shared, M_whereis, P_far_shares)
    /\ MacroLine(call.out.seeds) = <<"1", "|", "1", "|", "6", "|", "P", "l", "a", "y", "e", "r", " ", "2", "'", "s", " ", "M", "a", "r", "s", "h">>
C19_WitnessSpawn ==
    /\ PostOf(P_spawn1, M_whereis, P_far)
    /\ MacroLine(call.out.seeds) = <<"1", "|", "1", "|", "6", "|", "S", "p", "a", "w", "n">>

(***************************************************************************)
(* SpecValidate: validate_header over headers of pickup lines. A line is   *)
(* drawn as what it says (the state of the pickup, the item) and written   *)
(* out as the text validate_header reads.                                  *)
(***************************************************************************)
PickupStates == {State(3, 0, <<>>), State(9, 100, <<>>), State(9, 101, <<"2">>)}
SetItem(group, id, uber_type, value) ==
    [kind |-> "set", group |-> group, id |-> id, uber_type |-> uber_type, value |-> value]
TimerItem(command, group, id) == [kind |-> "timer", command |-> command, group |-> group, id |-> id]
ValidateItems ==
    {SetItem(9, 100, <<"b", "o", "o", "l">>, <<"t", "r", "u", "e">>), SetItem(9, 100, <<"b", "o", "o", "l">>, <<"f", "a", "l", "s", "e">>),
     SetItem(9, 100, <<"i", "n", "t">>, <<"1">>), SetItem(9, 100, <<"i", "n", "t">>, <<"0">>),
     SetItem(5, 100, <<"b", "o", "o", "l">>, <<"t", "r", "u", "e">>),
     TimerItem(<<"9">>, 9, 100), TimerItem(<<"1", "0">>, 9, 101),
     [kind |-> "other"]}
ValidateLines == [pickup : PickupStates, item : ValidateItems]
StateText(uber_state) ==
    Bar(NaturalText(uber_state.group), NaturalText(uber_state.id))
        \o (IF uber_state.value = <<>> THEN <<>> ELSE <<"=">> \o uber_state.value)
ValidateItemText(item) ==
    CASE item.kind = "set" ->
             Bar(Bar(Bar(Bar(<<"8">>, NaturalText(item.group)), NaturalText(item.id)),
                     item.uber_type), item.value)
      [] item.kind = "timer" ->
             Bar(Bar(Bar(<<"4">>, item.command), NaturalText(item.group)), NaturalText(item.id))
      [] item.kind = "stop" ->
             Bar(Bar(Bar(Bar(<<"4">>, item.command), NaturalText(item.state.group)),
                     NaturalText(item.state.id)), item.state.value)
      [] OTHER -> <<"0", "|", "5", "0">>
LineText(line) == Bar(StateText(line.pickup), ValidateItemText(line.item))
ValidateHeaders == UNION {[1..n -> ValidateLines] : n \in 0..MaxValidateLines}

InitValidate == \E h \in ValidateHeaders : InitCall("validate_header", h)
ValidateHeader ==
    Returned("validate_header",
             validate_header([i \in 1..Len(call.input) |-> LineText(call.input[i])],
                             overflow_checks))
NextValidate == ValidateHeader
SpecValidate == InitValidate /\ [][NextValidate]_vars

\* What a line reserves: its own state if that is in group 9, then what its item reserves
ItemReserves(item) ==
    CASE item.kind = "set" /\ item.group = 9 /\ item.value \in {<<"t", "r", "u", "e">>, <<"1">>} ->
             <<State(item.group, item.id, IF item.value = <<"t", "r", "u", "e">> THEN <<"1">> ELSE item.value)>>
      [] item.kind = "timer" -> <<State(item.group, item.id, <<"+", "+">>)>>
      [] OTHER -> <<>>
LineReserves(line) ==
    (IF line.pickup.group = 9 THEN <<line.pickup>> ELSE <<>>) \o ItemReserves(line.item)
RECURSIVE HeaderReserves(_)
HeaderReserves(h) == IF h = <<>> THEN <<>> ELSE LineReserves(Head(h)) \o HeaderReserves(Tail(h))
\* The identifier is reserved as a whole: by a pickup without a value or by a timer
WholeIn(reserved, uber_state) ==
    \E i \in 1..Len(reserved) :
        /\ reserved[i].group = uber_state.group
        /\ reserved[i].id = uber_state.id
        /\ reserved[i].value \in {<<>>, <<"+", "+">>}
Reported(reserved) ==
    {IF WholeIn(reserved, reserved[i]) THEN State(reserved[i].group, reserved[i].id, <<>>)
     ELSE reserved[i] : i \in 1..Len(reserved)}
ValidateDone == call.fn = "validate_header" /\ call.phase = "done"

\* C20: validate_header reserves (identifier, value) for an item setting a
\* state of group 9 to a literal value, true made 1 and false and 0 reserving
\* nothing, so that a header setting (9,100) to true and one setting it to 1
\* report the same occupied state (9,100,"1"); a pickup line of group 9
\* reserves its state, and a Start or Stop Timer item its identifier. What is
\* reported is what was reserved, an identifier reserved as a whole standing
\* for its values, each entry once.
C20_Occupied ==
    ValidateDone =>
        /\ call.out.status = "ok"
        /\ call.out.pushed = HeaderReserves(call.input)
        /\ Range(call.out.occupied_states) = Reported(HeaderReserves(call.input))
        /\ Len(call.out.occupied_states) = Cardinality(Reported(HeaderReserves(call.input)))
        /\ Len(call.input) = 1 /\ call.input[1].pickup.group # 9
               /\ call.input[1].item \in {SetItem(9, 100, <<"b", "o", "o", "l">>, <<"t", "r", "u", "e">>),
                                          SetItem(9, 100, <<"i", "n", "t">>, <<"1">>)}
           => call.out.occupied_states = <<State(9, 100, <<"1">>)>>
C20_Witness ==
    /\ ValidateDone
    /\ call.input = <<[pickup |-> State(3, 0, <<>>), item |-> SetItem(9, 100, <<"b", "o", "o", "l">>, <<"t", "r", "u", "e">>)]>>
    /\ call.out.occupied_states = <<State(9, 100, <<"1">>)>>
C20_WitnessWhole ==
    /\ ValidateDone
    /\ Len(call.input) = 2
    /\ call.input[1].item = SetItem(9, 100, <<"i", "n", "t">>, <<"1">>)
    /\ call.input[2].pickup = State(9, 100, <<>>)
    /\ call.input[2].item = TimerItem(<<"1", "0">>, 9, 101)
    /\ call.out.occupied_states = <<State(9, 100, <<>>), State(9, 101, <<>>)>>

(***************************************************************************)
(* SpecStop: validate_header over headers whose pickups hold stop commands *)
(***************************************************************************)
StopItem(command, state) == [kind |-> "stop", command |-> command, state |-> state]
StopPickups == {State(3, 0, <<>>), State(9, 100, <<>>), State(5, 1, <<>>)}
StopItems ==
    {StopItem(c, s) : c \in {<<"4">>, <<"5">>, <<"6">>}, s \in {State(9, 7, <<"1">>), State(5, 7, <<"1">>)}}
        \cup {[kind |-> "other"]}
StopLines == [pickup : StopPickups, item : StopItems]
StopHeaders == UNION {[1..n -> StopLines] : n \in 0..MaxStopLines}
InitStop == \E h \in StopHeaders : InitCall("validate_header", h)
SpecStop == InitStop /\ [][NextValidate]_vars

\* Some line holds a stop command on a pickup outside group 9
StopOutside(h) == \E i \in 1..Len(h) : h[i].item.kind = "stop" /\ h[i].pickup.group # 9
StopReserves(line) ==
    (IF line.pickup.group = 9 THEN <<line.pickup>> ELSE <<>>)
        \o (IF line.item.kind = "stop" THEN <<line.item.state>> ELSE <<>>)
StopReservesNine(line) ==
    (IF line.pickup.group = 9 THEN <<line.pickup>> ELSE <<>>)
        \o (IF line.item.kind = "stop" /\ line.item.state.group = 9
            THEN <<line.item.state>> ELSE <<>>)
RECURSIVE StopHeaderReserves(_, _)
StopHeaderReserves(h, nine) ==
    IF h = <<>> THEN <<>>
    ELSE (IF nine THEN StopReservesNine(Head(h)) ELSE StopReserves(Head(h)))
             \o StopHeaderReserves(Tail(h), nine)
\* C21: a StopEqual, StopGreater or StopLess item on a pickup line of group 9
\* reserves the state the command names, and on a pickup line of any other
\* group validate_header returns an error
C21_StopAsStated ==
    ValidateDone =>
        /\ StopOutside(call.input) <=> call.out.status = "err"
        /\ call.out.status = "ok" => call.out.pushed = StopHeaderReserves(call.input, FALSE)
\* C21 amended: on a pickup line of group 9 the state the command names is
\* reserved if it is itself of group 9, and nothing is reserved for a state
\* of another group
C21_StopAmended ==
    ValidateDone =>
        /\ StopOutside(call.input) <=> call.out.status = "err"
        /\ call.out.status = "ok" => call.out.pushed = StopHeaderReserves(call.input, TRUE)
C21_Witness ==
    /\ ValidateDone
    /\ call.input = <<[pickup |-> State(9, 100, <<>>),
                       item |-> StopItem(<<"5">>, State(9, 7, <<"1">>))]>>
    /\ call.out.occupied_states = <<State(9, 7, <<"1">>), State(9, 100, <<>>)>>
C21_WitnessOutside ==
    /\ ValidateDone
    /\ call.input = <<[pickup |-> State(3, 0, <<>>),
                       item |-> StopItem(<<"4">>, State(9, 7, <<"1">>))]>>
    /\ call.out.status = "err"
C21_WitnessOther ==
    /\ ValidateDone
    /\ call.input = <<[pickup |-> State(9, 100, <<>>),
                       item |-> StopItem(<<"6">>, State(5, 7, <<"1">>))]>>
    /\ call.out.occupied_states = <<State(9, 100, <<>>)>>

(***************************************************************************)
(* SpecCollapse: validate_header over headers that reserve the same        *)
(* identifiers with and without values                                     *)
(***************************************************************************)
CollapseValues == {<<>>, <<"+", "5">>, <<"-", "1">>, <<"1">>, <<"=", "x">>}
CollapseLines ==
    [pickup : {State(9, i, v) : i \in {100, 101}, v \in CollapseValues},
     item : {[kind |-> "other"]}]
        \cup {[pickup |-> State(3, 0, <<>>), item |-> TimerItem(<<"9">>, 9, 100)]}
CollapseHeaders == UNION {[1..n -> CollapseLines] : n \in 0..MaxCollapseLines}
InitCollapse == \E h \in CollapseHeaders : InitCall("validate_header", h)
SpecCollapse == InitCollapse /\ [][NextValidate]_vars

\* What the lines of the header reserve, before the sort
CollapseReserved(h) ==
    {h[i].pickup : i \in {j \in 1..Len(h) : h[j].pickup.group = 9}}
        \cup {State(h[i].item.group, h[i].item.id, <<"+", "+">>) :
                 i \in {j \in 1..Len(h) : h[j].item.kind = "timer"}}
SameIdentifier(a, b) == a.group = b.group /\ a.id = b.id
Unvalued(uber_state) ==
    uber_state.value = <<>> \/ Head(uber_state.value) \in {"+", "-"}
C22_WitnessStrict ==
    /\ ValidateDone
    /\ Len(call.input) = 3
    /\ call.input[1].pickup = State(9, 101, <<"=", "x">>)
    /\ call.input[2].pickup = State(9, 101, <<"1">>)
    /\ call.input[3].pickup = State(9, 101, <<"1">>)
    /\ call.out.occupied_states = <<State(9, 101, <<"1">>), State(9, 101, <<"=", "x">>)>>

(***************************************************************************)
(* SpecSkip: validate_header over headers with comments                    *)
(***************************************************************************)
K_skip == <<"/", "/", " ", "s", "k", "i", "p", "-", "v", "a", "l", "i", "d", "a", "t", "e">>
K_note == <<"/", "/", " ", "n", "o", "t", "e">>
SkipLines ==
    {K_skip, K_note, <<>>, <<"9", "|", "1", "0", "0", "|", "0", "|", "5", "0">>, <<"9", "|", "1", "0", "1", "|", "0", "|", "5", "0", " ", "/", "/", " ", "s", "k", "i", "p", "-", "v", "a", "l", "i", "d", "a", "t", "e">>, <<"9", "|", "1", "0", "2", "|", "0", "|", "5", "0", " ", "/", "/", " ", "n", "o", "t", "e">>,
     <<"3", "|", "0", "|", "0", "|", "5", "0">>}
SkipHeaders == UNION {[1..n -> SkipLines] : n \in 0..MaxSkipLines}
InitSkip == \E h \in SkipHeaders : InitCall("validate_lines", h)
ValidateLinesOf == Returned("validate_lines", validate_header(call.input, overflow_checks))
NextSkip == ValidateLinesOf
SpecSkip == InitSkip /\ [][NextSkip]_vars

SkipDone == call.fn = "validate_lines" /\ call.phase = "done"
\* The group 9 pickups of the header on lines that do not say skip-validate
Unexempted(h) ==
    {State(9, 100, <<>>) : i \in {j \in 1..Len(h) : h[j] = <<"9", "|", "1", "0", "0", "|", "0", "|", "5", "0">>}}
        \cup {State(9, 102, <<>>) : i \in {j \in 1..Len(h) : h[j] = <<"9", "|", "1", "0", "2", "|", "0", "|", "5", "0", " ", "/", "/", " ", "n", "o", "t", "e">>}}
\* C30: a skip-validate comment exempts only the line it is written on, so a
\* pickup of group 9 on a line without it is reserved, whatever the lines
\* before it
C30_OwnLineOnly ==
    SkipDone =>
        /\ call.out.status = "ok"
        /\ Range(call.out.occupied_states) = Unexempted(call.input)
SkipCarried ==
    /\ SkipDone
    /\ call.input = <<K_skip, <<"9", "|", "1", "0", "0", "|", "0", "|", "5", "0">>>>
    /\ call.out.status = "ok"
    /\ call.out.occupied_states = <<>>
SkipOnLine ==
    /\ SkipDone
    /\ call.input = <<<<"9", "|", "1", "0", "1", "|", "0", "|", "5", "0", " ", "/", "/", " ", "s", "k", "i", "p", "-", "v", "a", "l", "i", "d", "a", "t", "e">>, <<"9", "|", "1", "0", "0", "|", "0", "|", "5", "0">>>>
    /\ call.out.occupied_states = <<State(9, 100, <<>>)>>

(***************************************************************************)
(* SpecGate: parse_header over headers with comments, skipped branches,    *)
(* takes and parameters                                                    *)
(***************************************************************************)
G_pool == <<"!", "!", "p", "o", "o", "l", " ", "{", "a", "-", "b", "}">>
G_quad == <<"/", "/", "/", "/", " ", "n", "o", "t", "e">>
G_quad_take == <<"/", "/", "/", "/", " ", "!", "!", "t", "a", "k", "e">>
G_endif_skip == <<"!", "!", "e", "n", "d", "i", "f", " ", "/", "/", " ", "s", "k", "i", "p", "-", "v", "a", "l", "i", "d", "a", "t", "e">>
G_pickup_skip == <<"3", "|", "0", "|", "0", "|", "5", "0", " ", "/", "/", " ", "s", "k", "i", "p", "-", "v", "a", "l", "i", "d", "a", "t", "e">>
G_skip_param == <<"3", "|", "0", "|", "0", "|", "5", "0", " ", "/", "/", " ", "s", "k", "i", "p", "-", "v", "a", "l", "i", "d", "a", "t", "e", " ", "$", "P", "A", "R", "A", "M", "(", "B", ")">>
G_take == <<"!", "o", "u", "t", " ", "!", "!", "t", "a", "k", "e">>
G_param == <<"!", "v", " ", "$", "P", "A", "R", "A", "M", "(", "B", ")">>
G_flags == <<"F", "l", "a", "g", "s", ":", " ", "a", " ", "/", "/", " ", "b", ",", " ", "c">>
G_flush == <<"!", "!", "f", "l", "u", "s", "h", " ", "/", "/", " ", "f", "l", "u", "s", "h", " ", "i", "t">>
G_pickup_note == <<"3", "|", "0", "|", "0", "|", "5", "0", " ", "/", "/", " ", "9", "|", "9">>
GateLines ==
    {G_pool, L_paramA1, L_ifA2, L_endif, G_quad, G_quad_take, G_endif_skip, G_pickup_skip,
     G_skip_param, G_take, G_param, G_flags, G_flush, G_pickup_note}
InitGate == InitHeader(MaxGateLines)
GateLine == \E line \in GateLines, ds \in DrawScripts(Len(run.pool), 1) : HeaderLine(line, ds)
NextGate == GateLine \/ HeaderEnd
SpecGate == InitGate /\ [][NextGate]_vars

\* The line begins with //// or its comment names skip-validate
Dropped(line) ==
    \/ StartsWith(Trim(line), S_comment4)
    \/ /\ Contains(line, S_comment)
       /\ Contains(Drop(line, Find(line, S_comment) - 1), S_skip_validate)
\* The line without its comment
Uncommented(line) ==
    IF Contains(line, S_comment) THEN Take(line, Find(line, S_comment) - 1) ELSE line
\* All of the run but the output and the first-line mark
Gating(r) == [pool |-> r.pool, parameters |-> r.parameters, skip_until |-> r.skip_until,
              depth |-> r.depth]
LineRead == header' # header
TheLine == header'[Len(header')]
DroppedInert ==
    LineRead /\ Dropped(TheLine) =>
        /\ result' = "running"
        /\ run'.processed = run.processed
        /\ Gating(run') = Gating(run)
        /\ world' = world
        /\ context' = context
CommentIgnored ==
    LineRead /\ ~Dropped(TheLine) /\ Contains(TheLine, S_comment)
             /\ (StartsWith(TheLine, S_bangbang) \/ StartsWith(TheLine, S_Flags)
                 \/ Head(TheLine) \in {"3", "9"}) =>
        /\ result' = (IF parse_header_line(run, world, context, param_values, overflow_checks,
                                            Uncommented(TheLine), <<>>).status = "continue"
                      THEN "running" ELSE "err")
        /\ Gating(run') = Gating(parse_header_line(run, world, context, param_values,
                                                   overflow_checks, Uncommented(TheLine),
                                                   <<>>).run)
        /\ world' = parse_header_line(run, world, context, param_values, overflow_checks,
                                      Uncommented(TheLine), <<>>).world
        /\ context' = parse_header_line(run, world, context, param_values, overflow_checks,
                                        Uncommented(TheLine), <<>>).context
\* C26: a line beginning with //// and a line whose comment names
\* skip-validate have no effect at all; of any other line read as a
\* directive, a flag line or a pickup, the text from the first // on is ignored
C26_CommentsInert == [][DroppedInert /\ CommentIgnored]_vars
\* A take in a dropped line draws from the pool
QuadTakeDrawn ==
    /\ header = <<G_pool, G_quad_take>>
    /\ result = "running"
    /\ Len(run.pool) = 1
\* A parameter in a dropped line is looked up
SkipParamFails ==
    /\ header = <<G_skip_param>>
    /\ result = "err"

\* C29: a line inside a false !!if branch leaves the pool unchanged and
\* cannot fail
C29_SkippedInert ==
    [][LineRead /\ run.skip_until > -1 => run'.pool = run.pool /\ result' = "running"]_vars
SkippedTakeDrawn ==
    /\ header = <<G_pool, L_paramA1, L_ifA2, G_take>>
    /\ result = "running"
    /\ run.skip_until > -1
    /\ Len(run.pool) = 1
SkippedTakeFails ==
    /\ header = <<L_paramA1, L_ifA2, G_take>>
    /\ result = "err"
SkippedParamFails ==
    /\ header = <<L_paramA1, L_ifA2, G_param>>
    /\ result = "err"

(***************************************************************************)
(* SpecParam: apply_parameters on its own, over lines and parameter maps   *)
(***************************************************************************)
S_B == <<"B">>
A_macro == <<"$", "P", "A", "R", "A", "M", "(", "A", ")">>
ParamLines ==
    {A_macro, <<"x", " ", "$", "P", "A", "R", "A", "M", "(", "A", ")", " ", "y", " ", "$", "P", "A", "R", "A", "M", "(", "B", ")">>, <<"$", "P", "A", "R", "A", "M", "(", " ", "A", " ", ")">>, <<"$", "P", "A", "R", "A", "M", "(", "C", ")">>, <<"$", "P", "A", "R", "A", "M", "(", "A">>, <<"n", "o", "n", "e">>,
     <<"$", "P", "A", "R", "A", "M", "(", "A", ")", ")">>, <<"$", "P", "A", "R", "A", "M", "(", "B", ")", "$", "P", "A", "R", "A", "M", "(", "B", ")">>, <<>>, <<"$", "P", "A", "R", "A", "M", "(", "B", ")", " ", "a", "n", "d", " ", "$", "P", "A", "R", "A", "M", "(", "C", ")">>}
ParamMaps ==
    {EmptyMap, (S_A :> <<"1">>), (S_A :> <<"1">>) @@ (S_B :> <<"2">>), (S_A :> <<"$", "P", "A", "R", "A", "M", "(", "B", ")">>) @@ (S_B :> <<"2">>),
     (S_A :> A_macro), (S_A :> <<"$", "P", "A", "R", "A", "M", "(", "B", ")">>) @@ (S_B :> A_macro), (S_A :> <<"x", "$", "P", "A", "R", "A", "M", "(", "A", ")">>),
     (S_A :> <<"$", "P", "A", "R", "A", "M", "(", "A">>)}
InitParam ==
    \E l \in ParamLines, m \in ParamMaps :
        InitCall("apply_parameters", [line |-> l, parameters |-> m])
ApplyParameters ==
    Returned("apply_parameters",
             apply_parameters(call.input.line, call.input.parameters, overflow_checks))
NextParam == ApplyParameters
SpecParam == InitParam /\ [][NextParam]_vars

ParamDone == call.fn = "apply_parameters" /\ call.phase = "done"
\* C27: apply_parameters terminates for every line and every parameter map,
\* with the line substituted or with the error of an unknown parameter
C27_Terminates == ParamDone => call.out.status \in {"ok", "err"}
\* The value of A is the macro of A: the replacement leaves the line as it
\* was, and the scan starts again at the same index
SelfReferenceLoops ==
    /\ ParamDone
    /\ call.input = [line |-> A_macro, parameters |-> (S_A :> A_macro)]
    /\ ReplaceRange(call.input.line, 0, 8, call.input.parameters[S_A]) = call.input.line
    /\ call.out.status = "diverges"
\* Values without a macro of their own: the line comes back substituted
ChainResolved ==
    /\ ParamDone
    /\ call.input = [line |-> A_macro, parameters |-> (S_A :> <<"$", "P", "A", "R", "A", "M", "(", "B", ")">>) @@ (S_B :> <<"2">>)]
    /\ call.out = [status |-> "ok", line |-> <<"2">>]

\* C28: postprocess terminates for every seed: the calls of where_is across
\* the worlds for a match at a pickup of group 12 come to an end, also when
\* both worlds hold a pickup of group 12 whose item is 8|12|ID|bool|true for
\* the same ID
C28_Terminates == PostDone => call.out.status # "overflow"
\* Both worlds hold 12|5|8|12|5|bool|true: each match sends where_is to the
\* other world with the pattern it came with
SharedBothWays ==
    /\ PostOf(P_self, M_self, P_self)
    /\ call.out.status = "overflow"
SharedOneWay ==
    /\ PostOf(P_self, M_self, P_far)
    /\ call.out.status = "ok"
    /\ MacroLine(call.out.seeds) = <<"1", "|", "1", "|", "6", "|", "U", "n", "k", "n", "o", "w", "n">>

(***************************************************************************)
(* parse_requirement on one token, under every context of declared names   *)
(***************************************************************************)
N_Foo == <<"F", "o", "o">>
N_Boss == <<"B", "o", "s", "s">>
ReqKeywords ==
    {N_Boss, <<"D", "a", "m", "a", "g", "e">>, <<"S", "p", "i", "r", "i", "t", "L", "i", "g", "h", "t">>, <<"D", "a", "s", "h">>, <<"f", "r", "e", "e">>, S_Combat, N_Foo, <<"G", "o", "o">>}
ReqSuffixes == {<<>>, <<"=", "3">>, <<"=", "x">>, <<"=", "1", "=", "2">>, <<"=", "7", "0", "0", "0", "0">>}
ReqNames == SUBSET {N_Foo, N_Boss}
ReqContexts ==
    {ParseContext(0, definitions, pathsets, quests, states) :
        definitions \in ReqNames, pathsets \in ReqNames,
        quests \in ReqNames, states \in ReqNames}
ReqInputs ==
    {[keyword |-> keyword, suffix |-> suffix, ctx |-> ctx] :
        keyword \in ReqKeywords, suffix \in ReqSuffixes, ctx \in ReqContexts}
InitReq == \E input \in ReqInputs : InitCall("parse_requirement", input)
ParseRequirement ==
    Returned("parse_requirement",
             parse_requirement(Token("Requirement", call.input.keyword \o call.input.suffix),
                               call.input.ctx))
NextReq == ParseRequirement
SpecReq == InitReq /\ [][NextReq]_vars

ReqDone == call.fn = "parse_requirement" /\ call.phase = "done"
Bare == call.input.suffix = <<>>
DeclaredNames(ctx) == ctx.definitions \cup ctx.pathsets \cup ctx.states \cup ctx.quests
BuiltIn == {row.keyword : row \in AmountKeywords \cup PlainKeywords}
\* The keywords the amount is required for
AmountRequired ==
    {N_Boss, <<"B", "r", "e", "a", "k", "W", "a", "l", "l">>, <<"D", "a", "m", "a", "g", "e">>, <<"D", "a", "n", "g", "e", "r">>, <<"E", "n", "e", "r", "g", "y">>, <<"H", "e", "a", "l", "t", "h">>, <<"K", "e", "y", "s", "t", "o", "n", "e">>, <<"O", "r", "e">>,
     <<"S", "e", "n", "t", "r", "y", "J", "u", "m", "p">>, <<"S", "h", "a", "r", "d", "S", "l", "o", "t">>, <<"S", "h", "u", "r", "i", "k", "e", "n", "B", "r", "e", "a", "k">>, <<"S", "p", "i", "r", "i", "t", "L", "i", "g", "h", "t">>}

\* C24: parse_requirement fails with WrongAmount for a keyword that requires
\* an amount and stands without one, whatever names the file declares, and
\* with WrongRequirement for a bare keyword that is neither built in nor
\* among the declared definitions, pathsets, states and quests
C24_Errors ==
    ReqDone /\ Bare =>
        /\ call.input.keyword \in AmountRequired => call.out.status = "WrongAmount"
        /\ call.input.keyword \notin BuiltIn \cup DeclaredNames(call.input.ctx)
               => call.out.status = "WrongRequirement"
\* A state called Boss takes the bare keyword Boss
AmountShadowed ==
    /\ ReqDone /\ Bare
    /\ call.input.keyword = N_Boss
    /\ call.input.ctx.states = {N_Boss}
    /\ call.input.ctx.definitions = {} /\ call.input.ctx.pathsets = {}
    /\ call.out.status = "ok"
    /\ call.out.value = Requirement("State", "", N_Boss, 0)
\* Without a declaration of the name the two errors are as stated
C24_Undeclared ==
    ReqDone /\ Bare /\ call.input.keyword \notin DeclaredNames(call.input.ctx) =>
        /\ call.input.keyword \in AmountRequired => call.out.status = "WrongAmount"
        /\ call.input.keyword \notin BuiltIn => call.out.status = "WrongRequirement"
AmountMissing ==
    /\ ReqDone /\ Bare
    /\ call.input.keyword = N_Boss
    /\ DeclaredNames(call.input.ctx) = {N_Foo}
    /\ call.out.status = "WrongAmount"
UnknownKeyword ==
    /\ ReqDone /\ Bare
    /\ call.input.keyword = <<"G", "o", "o">>
    /\ call.out.status = "WrongRequirement"

(***************************************************************************)
(* parse_line on the token vectors made of up to MaxLinePieces pieces      *)
(***************************************************************************)
MaxLinePieces == 4
T_Dash == Token("Requirement", <<"D", "a", "s", "h">>)
T_Bash == Token("Requirement", <<"B", "a", "s", "h">>)
T_And == Token("And", <<>>)
T_Or == Token("Or", <<>>)
T_Newline == Token("Newline", <<>>)
T_Dedent == Token("Dedent", <<>>)
T_Group == Token("Group", <<>>)
T_Indent == Token("Indent", <<>>)
T_Free == Token("Free", <<>>)
LinePieces ==
    {<<T_Dash, T_And>>, <<T_Bash, T_Or>>, <<T_Dash, T_Newline>>, <<T_Bash, T_Dedent>>,
     <<T_Dash, T_Group>>, <<T_Indent>>, <<T_Free, T_Newline>>, <<T_Dedent>>}
RECURSIVE Pieces(_)
Pieces(n) ==
    IF n = 0 THEN {<<>>}
    ELSE Pieces(n - 1) \cup
         {tokens \o piece : tokens \in Pieces(n - 1), piece \in LinePieces}
NoNames == ParseContext(0, {}, {}, {}, {})
InitLine == \E tokens \in Pieces(MaxLinePieces) : InitCall("parse_line", tokens)
ParseLine == Returned("parse_line", parse_line(call.input, NoNames))
NextLine == ParseLine
SpecLine == InitLine /\ [][NextLine]_vars

LineParsed == call.fn = "parse_line" /\ call.phase = "done"
\* The tokens of the line itself: those read, up to the first Indent
LineEnd(tokens, read) ==
    Min({read} \cup {i \in 1..read : tokens[i].name = "Indent"})
Separators(tokens, read) == {tokens[i].name : i \in 1..LineEnd(tokens, read)}
\* C25: a line accepted by parse_line joins its requirements with one
\* connective: a token sequence with both And and Or separators on the line
\* is rejected, and no returned Line has requirements in ors together with
\* requirements that stood in front of an And
C25_Uniform ==
    LineParsed /\ call.out.status = "ok" =>
        /\ ~({"And", "Or"} \subseteq Separators(call.input, call.out.ctx.position))
        /\ ~(/\ call.out.value.ors # <<>>
             /\ "And" \in Separators(call.input, call.out.ctx.position))
\* Dash, Bash OR Dash: accepted, Dash in ands, Bash and Dash in ors
MixedAccepted ==
    /\ LineParsed
    /\ call.input = <<T_Dash, T_And, T_Bash, T_Or, T_Dash, T_Newline>>
    /\ call.out.status = "ok"
    /\ Len(call.out.value.ands) = 1
    /\ Len(call.out.value.ors) = 2
UniformAccepted ==
    /\ LineParsed
    /\ call.input = <<T_Bash, T_Or, T_Bash, T_Or, T_Dash, T_Newline>>
    /\ call.out.status = "ok"
    /\ call.out.value.ands = <<>>
    /\ Len(call.out.value.ors) = 3

(***************************************************************************)
(* parse_areas on the token vectors of up to MaxAreaBlocks blocks; a block *)
(* carries the names it declares and the names its requirements use        *)
(***************************************************************************)
MaxAreaBlocks == 3
N_Goo == <<"G", "o", "o">>
T_Req(name) == Token("Requirement", name)
Block(tokens, declares, uses) == [tokens |-> tokens, declares |-> declares, uses |-> uses]
Body(name) == <<T_Indent, T_Req(name), T_Newline, T_Dedent>>
B_definition(name, use) ==
    Block(<<Token("Definition", name)>> \o Body(use), {<<"Definition", name>>}, {use})
B_region(use) == Block(<<Token("Region", <<"R">>)>> \o Body(use), {}, {use})
B_pathsets(name) ==
    Block(<<Token("Pathsets", <<"P">>)>> \o Body(name), {<<"Pathset", name>>}, {})
B_described(name, entry) ==
    Block(<<Token("Pathsets", <<"P">>), T_Indent, T_Req(name), T_Group, T_Indent, T_Req(entry),
            T_Dedent, T_Dedent>>, {<<"Pathset", name>>}, {})
B_free(kind, name) ==
    Block(<<Token("Anchor", <<"A">>), T_Indent, Token(kind, name), T_Free, T_Newline, T_Dedent>>,
          {<<kind, name>>}, {})
B_connection(kind, name, use) ==
    Block(<<Token("Anchor", <<"A">>), T_Indent, Token(kind, name), T_Indent, T_Req(use), T_Or,
            T_Dash, T_Newline, T_Dedent, T_Dedent>>, {<<kind, name>>}, {use})
B_pickup(use) ==
    Block(<<Token("Anchor", <<"A">>), Token("Position", <<"1", ",", "-", "2">>), T_Indent,
            Token("Refill", S_Full), T_Newline, Token("Pickup", <<"X">>)>> \o Body(use)
          \o <<T_Dedent>>, {}, {use})
AreaBlocks ==
    {B_definition(N_Foo, N_Goo), B_definition(N_Goo, N_Foo), B_region(N_Foo),
     B_pathsets(N_Foo), B_described(N_Goo, N_Foo), B_free("State", N_Foo),
     B_free("Quest", N_Foo), B_connection("State", N_Goo, N_Foo),
     B_connection("Quest", N_Goo, N_Foo), B_pickup(N_Foo)}
RECURSIVE BlockSeqs(_)
BlockSeqs(n) ==
    IF n = 0 THEN {<<>>}
    ELSE BlockSeqs(n - 1) \cup
         {Append(blocks, block) : blocks \in BlockSeqs(n - 1), block \in AreaBlocks}
RECURSIVE BlockTokens(_)
BlockTokens(blocks) ==
    IF blocks = <<>> THEN <<>> ELSE Head(blocks).tokens \o BlockTokens(Tail(blocks))
InitAreas == \E blocks \in BlockSeqs(MaxAreaBlocks) : InitCall("parse_areas", blocks)
ParseAreas == Returned("parse_areas", parse_areas(BlockTokens(call.input)))
NextAreas == ParseAreas
SpecAreas == InitAreas /\ [][NextAreas]_vars

AreasDone == call.fn = "parse_areas" /\ call.phase = "done" /\ call.input # <<>>
Declared(blocks) == UNION {blocks[i].declares : i \in 1..Len(blocks)}
Used(blocks) == UNION {blocks[i].uses : i \in 1..Len(blocks)}
\* The variant a name stands for: definition, then pathset, then state, then quest
Precedence == <<"Definition", "Pathset", "State", "Quest">>
Kinds(blocks, name) == {i \in 1..4 : <<Precedence[i], name>> \in Declared(blocks)}
Expected(blocks, name) == Precedence[Min(Kinds(blocks, name))]
\* The requirements of the lines of a group, and those of the whole result
LineRequirements(line) ==
    {line.ands[i] : i \in 1..Len(line.ands)} \cup {line.ors[i] : i \in 1..Len(line.ors)}
GroupRequirements(group) ==
    UNION {LineRequirements(group.lines[i]) : i \in 1..Len(group.lines)}
AnchorRequirements(anchor) ==
    UNION {GroupRequirements(anchor.connections[j].requirements) :
               j \in 1..Len(anchor.connections)}
AreasRequirements(areas) ==
    UNION ({GroupRequirements(areas.definitions[i].requirements) :
                i \in 1..Len(areas.definitions)}
           \cup {GroupRequirements(areas.regions[i].requirements) :
                i \in 1..Len(areas.regions)}
           \cup {AnchorRequirements(areas.anchors[i]) : i \in 1..Len(areas.anchors)})
ByName(areas) == {r \in AreasRequirements(areas) : r.text # <<>>}

\* C23: a bare keyword that is not built in resolves by name, a definition
\* before a pathset before a state before a quest, and a name declared behind
\* its use resolves like one declared in front of it: when every name used is
\* declared somewhere in the file, parse_areas succeeds and each use yields
\* the variant of the first kind the name is declared as
C23_Precedence ==
    AreasDone =>
        IF \A name \in Used(call.input) : Kinds(call.input, name) # {}
        THEN /\ call.out.status = "ok"
             /\ {r.text : r \in ByName(call.out.value)} = Used(call.input)
             /\ \A r \in ByName(call.out.value) : r.kind = Expected(call.input, r.text)
        ELSE call.out.status = "WrongRequirement"
\* Foo is used by a region, then declared as a state, then as a pathset
C23_Witness ==
    /\ AreasDone
    /\ call.input = <<B_region(N_Foo), B_free("State", N_Foo), B_pathsets(N_Foo)>>
    /\ call.out.status = "ok"
    /\ call.out.value.regions[1].requirements.lines[1].ands
           = <<Requirement("Pathset", "", N_Foo, 0)>>
C23_WitnessLater ==
    /\ AreasDone
    /\ call.input = <<B_definition(N_Goo, N_Foo), B_free("Quest", N_Foo)>>
    /\ call.out.status = "ok"
    /\ call.out.value.definitions[1].requirements.lines[1].ands
           = <<Requirement("Quest", "", N_Foo, 0)>>
====
